---- MODULE Spec2Model ----
(***************************************************************************)
(* Detection & Classification Engine of Hoxi-Ai: session grouper,          *)
(* signature matcher with CIDR verification, classifier fusion, signature  *)
(* loader and the chunked processing pipeline.                             *)
(*                                                                         *)
(* Strings whose characters matter (addresses, user agents, paths) are     *)
(* sequences of one-character strings; timestamps are integers in          *)
(* milliseconds.                                                           *)
(***************************************************************************)
EXTENDS Integers, Sequences, FiniteSets, TLC

VARIABLES
    entries,        \* BehaviorAnalyzer: the caller's array handed to analyzeBehavior
    sessions,       \* BehaviorAnalyzer: result of groupIntoSessions
    sessionConfig,  \* BehaviorAnalyzer.sessionConfig
    gpc,            \* position of the grouping call: "ready" | "done"
    input,          \* history: the caller's array as it was when the call was made
    ipRangeCache,   \* SignatureMatcher.ipRangeCache: the CIDR strings parsed so far
    checkIp,        \* argument ip of the isIPInRanges call
    checkCidrs,     \* argument cidrs of the isIPInRanges call
    checkResult,    \* what the isIPInRanges call returned
    cpc,            \* position of the isIPInRanges call: "ready" | "done"
    enhancedSignatures, \* SignatureMatcher.enhancedSignatures, in Map order
    legacyTable,    \* the needles of the legacy BotDetector
    matchUa,        \* user agent of the entry handed to matchSignature
    matchIp,        \* its address; the empty string when absent
    matchResult,    \* what matchSignature returned
    mpc,            \* position of the matchSignature call: "ready" | "done"
    adds,           \* number of addSignature calls so far
    signatures,     \* SignatureLoader.signatures, in Map order
    loaded,         \* SignatureLoader.loaded
    initialized,    \* SignatureMatcher.initialized
    aliased,        \* enhancedSignatures is the loader's Map object itself
    catalog,        \* data/enhanced-bot-signatures.json as the read finds it
    lkind,          \* per call: "loadSignatures" | "initialize"
    lpc,            \* per call: "start" | "reading" | "resolved" | "done"
    concurrent,     \* history: two calls have been suspended at the same time
    recentLogs,     \* processLogsStreaming: logs, the filtered list
    pconfig,        \* DetectionPipeline.config: chunkSize, maxConcurrentChunks
    ppc,            \* the run: "start" | "loop" | "join" | "finalJoin" | "classifying" |
                    \*          "done" | "failed"
    loopI,          \* the loop variable i
    chunks,         \* the chunk tasks by chunk index: logs, state ("waiting" | "acquired" |
                    \* "pausing" | "running" | "done" | "failed"), result
    chunkPromises,  \* chunk indexes whose promises are in chunkPromises
    joined,         \* chunk indexes whose promises the run is awaiting
    processingSemaphore, \* capacity, permits, waitQueue
    allDetectionEntries,
    classifierInput, \* the argument of botClassifier.classify
    classifyCalls,  \* number of calls of botClassifier.classify
    finishOrder,    \* history: chunk indexes in the order their normalization settled
    updates,        \* number of updateConfig calls so far
    withConfigCalls, \* the processWithConfig calls in call order: config (the argument),
                    \* originalConfig (the copy the call saved), state ("awaiting" |
                    \* "resolved" | "rejected")
    wallClock,      \* the wall clock, in milliseconds
    analyzeInput,   \* the logs handed to CoreDetectionEngine.analyze
    analyzeRange,   \* startTime and endTime handed to analyzeTimeRange
    analyzeResults, \* what the analyze calls so far returned, in call order
    analyzeCalls,   \* history: per call, its clock reading and the detection of
                    \* every session before the confidence filter
    velocityRequests, \* the entries handed to VelocityAnalyzer.analyzeIP, per call
    velocityAnalyses \* what the analyzeIP calls returned, per call

groupVars == <<entries, sessions, sessionConfig, gpc, input>>
cidrVars == <<ipRangeCache, checkIp, checkCidrs, checkResult, cpc>>

matchVars == <<enhancedSignatures, legacyTable, matchUa, matchIp, matchResult, mpc, adds>>

loaderVars == <<signatures, loaded, initialized, aliased, catalog, lkind, lpc, concurrent>>

pipeVars == <<recentLogs, pconfig, ppc, loopI, chunks, chunkPromises, joined,
              processingSemaphore, allDetectionEntries, classifierInput, classifyCalls,
              finishOrder, updates, withConfigCalls>>

analyzeVars == <<wallClock, analyzeInput, analyzeRange, analyzeResults, analyzeCalls>>

velocityVars == <<velocityRequests, velocityAnalyses>>

vars == <<groupVars, cidrVars, matchVars, loaderVars, pipeVars, analyzeVars, velocityVars>>

\* what each specification leaves alone
outsideGroup == <<cidrVars, matchVars, loaderVars, pipeVars, analyzeVars, velocityVars>>
outsideCidr == <<groupVars, matchVars, loaderVars, pipeVars, analyzeVars, velocityVars>>
outsideMatch == <<groupVars, loaderVars, pipeVars, analyzeVars, velocityVars>>
outsideLoader == <<groupVars, cidrVars, pipeVars, analyzeVars, velocityVars>>
outsidePipe == <<groupVars, cidrVars, matchVars, loaderVars, analyzeVars, velocityVars>>
outsideAnalyze == <<groupVars, loaderVars, pipeVars, velocityVars>>

(***************************************************************************)
(* Generic helpers                                                         *)
(***************************************************************************)
Range(s) == {s[i] : i \in 1..Len(s)}

RECURSIVE SeqsUpTo(_, _)
SeqsUpTo(S, n) ==
    IF n = 0 THEN {<<>>}
    ELSE LET shorter == SeqsUpTo(S, n - 1)
         IN  shorter \cup {Append(s, x) : s \in {t \in shorter : Len(t) = n - 1}, x \in S}

Last(s) == s[Len(s)]

\* the sequence f with every element worked out
Listed(f) == f \o <<>>

\* F applied to the values of its arguments, each worked out once
With1(F(_), x) == CHOOSE r \in {F(v) : v \in {x}} : TRUE
With2(F(_, _), x, y) == CHOOSE r \in {F(v, w) : v \in {x}, w \in {y}} : TRUE
With3(F(_, _, _), x, y, z) ==
    CHOOSE r \in {F(u, v, w) : u \in {x}, v \in {y}, w \in {z}} : TRUE

\* a loop over xs[lo..hi] that takes state s to Step(s, x) for each element x in
\* turn: the first half of the range, then the second half from where that ended
RECURSIVE LoopRange(_, _, _, _, _)
LoopRange(Step(_, _), s, xs, lo, hi) ==
    IF lo > hi THEN s
    ELSE IF lo = hi THEN Step(s, xs[lo])
    ELSE With1(LAMBDA m :
                   With1(LAMBDA mid : LoopRange(Step, mid, xs, m + 1, hi),
                         LoopRange(Step, s, xs, lo, m)),
               (lo + hi) \div 2)
Loop(Step(_, _), s, xs) ==
    With2(LAMBDA s0, xs0 : LoopRange(Step, s0, xs0, 1, Len(xs0)), s, Listed(xs))

Flatten(ss) == Loop(LAMBDA all, s : all \o s, <<>>, ss)

\* xs.map(F)
Map(F(_), xs) == Loop(LAMBDA all, x : Append(all, F(x)), <<>>, xs)

RECURSIVE Pow2(_)
Pow2(k) == IF k = 0 THEN 1 ELSE 2 * Pow2(k - 1)

(***************************************************************************)
(* Strings: sequences of one-character strings                             *)
(***************************************************************************)
\* index of the first c at or after position i, or 0
RECURSIVE IndexOf(_, _, _)
IndexOf(s, c, i) ==
    IF i > Len(s) THEN 0
    ELSE IF s[i] = c THEN i
    ELSE IndexOf(s, c, i + 1)

\* s.includes(c) for a one-character c
Includes(s, c) == IndexOf(s, c, 1) # 0

\* s.split(c) for a one-character separator c
RECURSIVE Split(_, _)
Split(s, c) ==
    IF IndexOf(s, c, 1) = 0 THEN <<s>>
    ELSE <<SubSeq(s, 1, IndexOf(s, c, 1) - 1)>>
         \o Split(SubSeq(s, IndexOf(s, c, 1) + 1, Len(s)), c)

Digits == <<"0", "1", "2", "3", "4", "5", "6", "7", "8", "9">>
IsDigit(c) == \E d \in 1..10 : Digits[d] = c
DigitVal(c) == (CHOOSE d \in 1..10 : Digits[d] = c) - 1

\* number of consecutive digits of s from position i on
RECURSIVE DigitRun(_, _)
DigitRun(s, i) ==
    IF i > Len(s) \/ ~IsDigit(s[i]) THEN 0 ELSE 1 + DigitRun(s, i + 1)

\* value of the n digits of s that start at position i
RECURSIVE DigitsValue(_, _, _)
DigitsValue(s, i, n) ==
    IF n = 0 THEN 0
    ELSE DigitsValue(s, i, n - 1) * 10 + DigitVal(s[i + n - 1])

RECURSIVE SkipSpaces(_, _)
SkipSpaces(s, i) ==
    IF i <= Len(s) /\ s[i] = " " THEN SkipSpaces(s, i + 1) ELSE i

\* numbers as JavaScript sees them: NaN or a value
NaN == [nan |-> TRUE, v |-> 0]
Num(n) == [nan |-> FALSE, v |-> n]

\* parseInt(s) in radix 10: leading blanks, a sign, the longest run of digits;
\* NaN when there is no digit; undefined (a missing field) parses to NaN
ParseInt(s) ==
    LET Value(i1, negative, n) ==
            IF n = 0 THEN NaN
            ELSE IF negative THEN Num(0 - DigitsValue(s, i1, n))
            ELSE Num(DigitsValue(s, i1, n))
        Signed(i0, signed) ==
            Value(IF signed THEN i0 + 1 ELSE i0,
                  signed /\ s[i0] = "-",
                  DigitRun(s, IF signed THEN i0 + 1 ELSE i0))
        From(i0) == Signed(i0, i0 <= Len(s) /\ s[i0] \in {"-", "+"})
    IN  From(SkipSpaces(s, 1))

\* decimal text of a natural number (template literals, test data)
RECURSIVE DecimalString(_)
DecimalString(n) ==
    IF n < 10 THEN <<Digits[n + 1]>>
    ELSE Append(DecimalString(n \div 10), Digits[(n % 10) + 1])

(***************************************************************************)
(* Regular expressions as the code writes them: a sequence of items, each  *)
(* an atom with a quantifier, with the ^ and $ anchors and the i flag      *)
(***************************************************************************)
LowerLetters ==
    <<"a", "b", "c", "d", "e", "f", "g", "h", "i", "j", "k", "l", "m",
      "n", "o", "p", "q", "r", "s", "t", "u", "v", "w", "x", "y", "z">>
UpperLetters ==
    <<"A", "B", "C", "D", "E", "F", "G", "H", "I", "J", "K", "L", "M",
      "N", "O", "P", "Q", "R", "S", "T", "U", "V", "W", "X", "Y", "Z">>

\* position of the letter c in the alphabet, whatever its case; 0 for a non-letter
LetterRank ==
    [a |-> 1, b |-> 2, c |-> 3, d |-> 4, e |-> 5, f |-> 6, g |-> 7, h |-> 8, i |->
     9, j |-> 10, k |-> 11, l |-> 12, m |-> 13, n |-> 14, o |-> 15, p |-> 16, q |->
     17, r |-> 18, s |-> 19, t |-> 20, u |-> 21, v |-> 22, w |-> 23, x |-> 24, y |->
     25, z |-> 26, A |-> 1, B |-> 2, C |-> 3, D |-> 4, E |-> 5, F |-> 6, G |-> 7, H
     |-> 8, I |-> 9, J |-> 10, K |-> 11, L |-> 12, M |-> 13, N |-> 14, O |-> 15, P
     |-> 16, Q |-> 17, R |-> 18, S |-> 19, T |-> 20, U |-> 21, V |-> 22, W |-> 23, X
     |-> 24, Y |-> 25, Z |-> 26]
Letters == DOMAIN LetterRank
LetterIndex(c) == IF c \in Letters THEN LetterRank[c] ELSE 0

\* c.toLowerCase()
ToLowerCase(c) == IF c \in Letters THEN LowerLetters[LetterRank[c]] ELSE c

\* one literal character; a character class with its quantifier "1", "?", "+", "*"
Lit(c) == [kind |-> "lit", c |-> c, q |-> "1"]
Cls(kind, q) == [kind |-> kind, c |-> "", q |-> q]
Lits(s) == [i \in 1..Len(s) |-> Lit(s[i])]

\* /items/ with the flags: ci for i, start for a leading ^, end for a trailing $
Regex(items, ci, start, end) ==
    [items |-> Listed(items), ci |-> ci, start |-> start, end |-> end]

AtomMatches(it, ch, ci) ==
    CASE it.kind = "lit" ->
            IF ci THEN ToLowerCase(ch) = ToLowerCase(it.c) ELSE ch = it.c
      [] it.kind = "digit" -> IsDigit(ch)                       \* \d
      [] it.kind = "digitdot" -> IsDigit(ch) \/ ch = "."        \* [\d.]
      [] it.kind = "word" ->                                    \* \w
            IsDigit(ch) \/ LetterIndex(ch) # 0 \/ ch = "_"
      [] it.kind = "letter" ->                                  \* [a-z]
            IF ci THEN LetterIndex(ch) # 0 ELSE \E i \in 1..26 : LowerLetters[i] = ch
      [] it.kind = "alnum" ->                                   \* [a-z0-9]
            IsDigit(ch) \/ (IF ci THEN LetterIndex(ch) # 0
                            ELSE \E i \in 1..26 : LowerLetters[i] = ch)
      [] it.kind = "any" -> TRUE                                \* .

\* how many characters from position p on the atom matches in a row
RECURSIVE RunLen(_, _, _, _)
RunLen(it, s, p, ci) ==
    IF p > Len(s) \/ ~AtomMatches(it, s[p], ci) THEN 0
    ELSE 1 + RunLen(it, s, p + 1, ci)

\* the positions after one item, from any of the positions P before it
StepItem(it, s, P, ci) ==
    LET Reach(p, n) ==
            CASE it.q = "1" -> IF n >= 1 THEN {p + 1} ELSE {}
              [] it.q = "?" -> IF n >= 1 THEN {p, p + 1} ELSE {p}
              [] it.q = "+" -> (p + 1)..(p + n)
              [] it.q = "*" -> p..(p + n)
    IN  UNION {Reach(p, RunLen(it, s, p, ci)) : p \in P}

\* the positions at which items k.. can end when they start at a position of P
RECURSIVE EndsFrom(_, _, _, _, _)
EndsFrom(items, k, s, P, ci) ==
    IF k > Len(items) \/ P = {} THEN P
    ELSE EndsFrom(items, k + 1, s, StepItem(items[k], s, P, ci), ci)

\* the regex matches s with the match starting at position b
MatchesAt(re, s, b) ==
    /\ re.start => b = 1
    /\ \E e \in EndsFrom(re.items, 1, s, {b}, re.ci) : re.end => e = Len(s) + 1

\* re.test(s)
TestAnywhere(re, s) == \E b \in 1..(Len(s) + 1) : MatchesAt(re, s, b)
Test(re, s) == With2(TestAnywhere, re, s)

\* where the leftmost match of re in s starts; 0 when there is none
MatchStarts(re, s) == {b \in 1..(Len(s) + 1) : MatchesAt(re, s, b)}
LeftmostOf(starts) ==
    IF starts = {} THEN 0 ELSE CHOOSE b \in starts : \A c \in starts : b <= c
MatchIndex(re, s) == With1(LeftmostOf, With2(MatchStarts, re, s))

\* s.includes(t) for a string t
IncludesString(s, t) == Test(Regex(Lits(t), FALSE, FALSE, FALSE), s)

(***************************************************************************)
(* Numbers.  A confidence or score that the code builds by adding decimal  *)
(* literals is an IEEE-754 double: held here as a sign and a magnitude in  *)
(* units of 2^-57, the magnitude in three limbs of 20 bits, with every sum *)
(* rounded to 53 significant bits, ties to even.  Ratios and the weighted  *)
(* mean are exact rationals.                                               *)
(***************************************************************************)
Limb == Pow2(20)

F64(neg, hi, mid, lo) ==
    [neg |-> neg /\ (hi + mid + lo > 0), hi |-> hi, mid |-> mid, lo |-> lo]

\* the weight, in the low limb, of the last of the 53 bits kept: a magnitude
\* below 2^53 units keeps every bit
LastBit(hi) ==
    IF hi < Pow2(13) THEN 1
    ELSE Pow2(CHOOSE j \in 1..5 : Pow2(12 + j) <= hi /\ hi < Pow2(13 + j))

\* round to nearest, ties to even: whether the bits of lo below unit, followed by
\* the fraction rem/d, round the last bit kept upwards
RoundsUp(lo, rem, d, unit) ==
    \/ 2 * (lo % unit) > unit
    \/ (2 * (lo % unit) = unit /\ (rem > 0 \/ (lo \div unit) % 2 = 1))
    \/ (unit = 1 /\ 2 * rem > d)
    \/ (unit = 1 /\ 2 * rem = d /\ lo % 2 = 1)

\* the magnitude with the low limb replaced by lo2 <= 2^20, carried upwards
Carry(neg, hi, mid, lo2) ==
    F64(neg, hi + ((mid + (lo2 \div Limb)) \div Limb), (mid + (lo2 \div Limb)) % Limb,
        lo2 % Limb)

RoundAt(neg, hi, mid, lo, rem, d, unit) ==
    Carry(neg, hi, mid,
          ((lo \div unit) + (IF RoundsUp(lo, rem, d, unit) THEN 1 ELSE 0)) * unit)

\* round a magnitude to 53 significant bits: below 2^53 units it is exact
Round53(neg, hi, mid, lo) == RoundAt(neg, hi, mid, lo, 0, 1, LastBit(hi))

\* long division of n * 2^57 by d, a limb at a time; what the division leaves
\* below the last bit of the low limb decides the rounding
DivideLow(d, hi, mid, l0) == RoundAt(FALSE, hi, mid, l0 \div d, l0 % d, d, LastBit(hi))
DivideMiddle(d, hi, m0) == DivideLow(d, hi, m0 \div d, (m0 % d) * Limb)
DivideHigh(d, h0) == DivideMiddle(d, h0 \div d, (h0 % d) * Limb)

\* the double nearest to n/d, for 0 <= n < 2^14, 0 < d < 2^11 and n/d either 0
\* or in [2^-5, 2)
DoubleOfRatio(n, d) == DivideHigh(d, n * Pow2(17))      \* n * 2^57 is h0 * 2^40

\* the double of the decimal literal t/1000
DoubleOf(t) == DoubleOfRatio(t, 1000)

MagLess(a, b) ==
    \/ a.hi < b.hi
    \/ a.hi = b.hi /\ a.mid < b.mid
    \/ a.hi = b.hi /\ a.mid = b.mid /\ a.lo < b.lo

\* a < b, a <= b on doubles
F64Less(a, b) ==
    IF a.neg # b.neg THEN a.neg
    ELSE IF a.neg THEN MagLess(b, a) ELSE MagLess(a, b)
F64Leq(a, b) == ~F64Less(b, a)

Borrow(x, y) == IF x < y THEN 1 ELSE 0

\* |a| + |b| and |a| - |b| (for |a| >= |b|), limb by limb, then rounded
MagAdd(neg, a, b) ==
    Round53(neg,
            a.hi + b.hi + ((a.mid + b.mid + ((a.lo + b.lo) \div Limb)) \div Limb),
            (a.mid + b.mid + ((a.lo + b.lo) \div Limb)) % Limb,
            (a.lo + b.lo) % Limb)
MagSub(neg, a, b) ==
    Round53(neg,
            a.hi - b.hi - Borrow(a.mid - Borrow(a.lo, b.lo), b.mid),
            (a.mid - b.mid - Borrow(a.lo, b.lo) + Limb) % Limb,
            (a.lo - b.lo + Limb) % Limb)

\* a + b and a - b on doubles
F64Neg(a) == [a EXCEPT !.neg = ~a.neg /\ (a.hi + a.mid + a.lo > 0)]
F64Add(a, b) ==
    IF a.neg = b.neg THEN MagAdd(a.neg, a, b)
    ELSE IF MagLess(a, b) THEN MagSub(b.neg, b, a)
    ELSE MagSub(a.neg, a, b)
F64Sub(a, b) == F64Add(a, F64Neg(b))

\* Math.max, Math.min
F64Max(a, b) == IF F64Less(a, b) THEN b ELSE a
F64Min(a, b) == IF F64Less(b, a) THEN b ELSE a

\* the decimal, in thousandths, that a double stands for (nearest thousandth)
ThousandthsOfMagnitude(x) ==
    (x.hi * 1000 + ((x.mid * 1000 + ((x.lo * 1000) \div Limb)) \div Limb) + Pow2(16))
        \div Pow2(17)
Thousandths(x) ==
    IF x.neg THEN 0 - ThousandthsOfMagnitude(x) ELSE ThousandthsOfMagnitude(x)

\* exact rationals n/d in lowest terms, d > 0
RECURSIVE Gcd(_, _)
Gcd(a, b) == IF b = 0 THEN a ELSE Gcd(b, a % b)
Abs(n) == IF n < 0 THEN 0 - n ELSE n
Reduce(p, q, g) ==
    IF q < 0 THEN [n |-> 0 - (p \div g), d |-> 0 - (q \div g)]
    ELSE [n |-> p \div g, d |-> q \div g]
Rat(n, d) == Reduce(n, d, Gcd(Abs(n), Abs(d)))
RAdd(a, b) == Rat(a.n * b.d + b.n * a.d, a.d * b.d)
RMul(a, b) == Rat(a.n * b.n, a.d * b.d)
RLess(a, b) == a.n * b.d < b.n * a.d
RMax(a, b) == IF RLess(a, b) THEN b ELSE a
RMin(a, b) == IF RLess(b, a) THEN b ELSE a

(***************************************************************************)
(* Session grouper  (BehaviorAnalyzer.groupIntoSessions)                   *)
(***************************************************************************)
MaxEntries == 3

Unknown == <<"u", "n", "k", "n", "o", "w", "n">>
Bar == "|"

\* `${a}|${b}`
JoinBar(a, b) == a \o <<Bar>> \o b

\* key.split('|'): the list of fields between the bars
SplitBar(s) == Split(s, Bar)

\* s || 'unknown'
OrUnknown(s) == IF s = <<>> THEN Unknown ELSE s

\* entries.sort((a, b) => a.timestamp - b.timestamp): stable, ascending
\* two sorted halves are merged, an entry of the first half going ahead of the
\* entries of the second half that carry its timestamp
EarlierIn(es, ts) == Len(SelectSeq(es, LAMBDA e : e.ts < ts))
NotLaterIn(es, ts) == Len(SelectSeq(es, LAMBDA e : e.ts <= ts))
PlacesOfFirst(a, b) == Listed([i \in 1..Len(a) |-> i + EarlierIn(b, a[i].ts)])
PlacesOfSecond(a, b) == Listed([j \in 1..Len(b) |-> j + NotLaterIn(a, b[j].ts)])
MergeAt(a, b, placeA, placeB) ==
    Listed([p \in 1..(Len(a) + Len(b)) |->
               IF \E i \in 1..Len(a) : placeA[i] = p
               THEN a[CHOOSE i \in 1..Len(a) : placeA[i] = p]
               ELSE b[CHOOSE j \in 1..Len(b) : placeB[j] = p]])
MergeWith(a, b) ==
    With2(LAMBDA placeA, placeB : MergeAt(a, b, placeA, placeB),
          PlacesOfFirst(a, b), PlacesOfSecond(a, b))
MergeByTs(a, b) == With2(MergeWith, a, b)

RECURSIVE SortByTs(_)
SortByTs(es) ==
    IF Len(es) <= 1 THEN es
    ELSE MergeByTs(SortByTs(SubSeq(es, 1, Len(es) \div 2)),
                   SortByTs(SubSeq(es, Len(es) \div 2 + 1, Len(es))))

SessionKey(e) == JoinBar(OrUnknown(e.ip), OrUnknown(e.ua))

\* the Map<string, entries[]> in insertion order, as a sequence of [key, entries]
PutInGroup(groups, e, k) ==
    IF \E i \in 1..Len(groups) : groups[i].key = k
    THEN [groups EXCEPT ![CHOOSE i \in 1..Len(groups) : groups[i].key = k].entries
                            = Append(@, e)]
    ELSE Append(groups, [key |-> k, entries |-> <<e>>])

GroupByKey(es, groups) ==
    Loop(LAMBDA map, e : PutInGroup(map, e, SessionKey(e)), groups, es)

\* mutant: the session id is stamped with the wall clock instead of the start
\* of the session
CreateSessionDataStampsClock(es, ip, userAgent, sessionNum) ==
    [sessionId |-> ip \o <<"_">> \o DecimalString(sessionNum) \o <<"_">>
                      \o DecimalString(wallClock),
     ip        |-> ip,
     userAgent |-> userAgent,
     entries   |-> es,
     startTime |-> es[1].ts,
     endTime   |-> Last(es).ts]

\* createSessionData
CreateSessionData(es, ip, userAgent, sessionNum) ==
    [sessionId |-> ip \o <<"_">> \o DecimalString(sessionNum) \o <<"_">>
                      \o DecimalString(es[1].ts),
     ip        |-> ip,
     userAgent |-> userAgent,
     entries   |-> es,
     startTime |-> es[1].ts,
     endTime   |-> Last(es).ts]

GapMs(cfg) == cfg.maxGapMinutes * 60000

\* mutant: a session is also closed when the entry would make it last longer
\* than maxDurationHours
SplitStepCapsDuration(es, s, i, ip, userAgent) ==
    IF es[i].ts - es[i - 1].ts <= GapMs(sessionConfig)
           /\ es[i].ts - s.cur[1].ts <= sessionConfig.maxDurationHours * 3600000
    THEN [s EXCEPT !.cur = Append(@, es[i])]
    ELSE [cur |-> <<es[i]>>,
          counter |-> s.counter + 1,
          acc |-> Append(s.acc, CreateSessionData(s.cur, ip, userAgent, s.counter))]

\* one round of the loop of splitIntoSessions, at index i; cur is currentSession
\* and acc is sessions
SplitStep(es, s, i, ip, userAgent) ==
    IF es[i].ts - es[i - 1].ts <= GapMs(sessionConfig)
    THEN [s EXCEPT !.cur = Append(@, es[i])]
    ELSE [cur |-> <<es[i]>>,
          counter |-> s.counter + 1,
          acc |-> Append(s.acc, CreateSessionData(s.cur, ip, userAgent, s.counter))]

\* the loop from index 2 on
SplitLoop(es, ip, userAgent) ==
    Loop(LAMBDA s, i : SplitStep(es, s, i, ip, userAgent),
         [cur |-> <<es[1]>>, counter |-> 1, acc |-> <<>>],
         [k \in 1..(Len(es) - 1) |-> k + 1])

\* the push of the last session
PushLast(s, ip, userAgent) ==
    IF Len(s.cur) > 0
    THEN Append(s.acc, CreateSessionData(s.cur, ip, userAgent, s.counter))
    ELSE s.acc

\* mutant: the session still open when the loop ends is never pushed
SplitIntoSessionsDropsLast(es, ip, userAgent) ==
    IF Len(es) = 0 THEN <<>>
    ELSE With1(LAMBDA s : s.acc, With1(LAMBDA v : SplitLoop(v, ip, userAgent), es))

SplitIntoSessions(es, ip, userAgent) ==
    IF Len(es) = 0 THEN <<>>
    ELSE With1(LAMBDA s : PushLast(s, ip, userAgent),
               With1(LAMBDA v : SplitLoop(v, ip, userAgent), es))

\* const [ip, userAgent] = key.split('|')
GroupSessions(g) == SplitIntoSessions(g.entries, SplitBar(g.key)[1], SplitBar(g.key)[2])

SessionsOfGroups(groups) ==
    Loop(LAMBDA all, g : all \o With1(GroupSessions, g), <<>>, groups)

GroupIntoSessions(es) == SessionsOfGroups(GroupByKey(SortByTs(es), <<>>))

(***************************************************************************)
(* IPv4 CIDR containment  (SignatureMatcher.isIPInRanges)                  *)
(*                                                                         *)
(* A BigInt is its two's-complement bit vector over 0..BigIntBits-1, the   *)
(* top bit being the sign.                                                 *)
(***************************************************************************)
BigIntBits == 66
BitIndex == 0..(BigIntBits - 1)
Null == [null |-> TRUE]
Big(bits) == [null |-> FALSE, bits |-> bits]

\* p << 24 on a 32-bit signed integer, p in 0..255
ShiftLeft24(p) == IF p >= 128 THEN (p - 256) * 16777216 ELSE p * 16777216

\* BigInt(n) for a number n of the signed 32-bit range
BigOfInt32(n) ==
    Big([k \in BitIndex |->
            IF k >= 31 THEN (IF n < 0 THEN 1 ELSE 0)
            ELSE (n \div Pow2(k)) % 2])

\* BigInt(0xFFFFFFFF) << BigInt(n)
Ones32ShiftedLeft(n) == Big([k \in BitIndex |-> IF k >= n /\ k <= n + 31 THEN 1 ELSE 0])

\* BigInt(0xFFFFFFFF) >> BigInt(n)
Ones32ShiftedRight(n) == Big([k \in BitIndex |-> IF k <= 31 - n THEN 1 ELSE 0])

BigAnd(a, b) == Big([k \in BitIndex |-> IF a.bits[k] = 1 /\ b.bits[k] = 1 THEN 1 ELSE 0])
BigOr(a, b)  == Big([k \in BitIndex |-> IF a.bits[k] = 1 \/ b.bits[k] = 1 THEN 1 ELSE 0])

\* a <= b on BigInts
BigLeq(a, b) ==
    LET top == BigIntBits - 1
        Decide(diff) ==
            IF diff = {} THEN TRUE
            ELSE a.bits[CHOOSE k \in diff : \A j \in diff : j <= k] = 0
    IN  IF a.bits[top] # b.bits[top] THEN a.bits[top] = 1
        ELSE Decide({k \in 0..(top - 1) : a.bits[k] # b.bits[k]})

\* ipToBigInt: split on '.', parseInt each part, four parts each within 0..255 (a
\* NaN part passes both comparisons); NaN << n is 0; BigInt(NaN) throws and the
\* catch returns null; an address with ':' or with neither '.' nor ':' is null
IpToBigInt(ip) ==
    LET Shifted(part) == IF part.nan THEN 0 ELSE part.v
        Convert(parts) ==
            IF Len(parts) # 4
                  \/ \E i \in 1..Len(parts) :
                        ~parts[i].nan /\ (parts[i].v < 0 \/ parts[i].v > 255)
            THEN Null
            ELSE IF parts[4].nan THEN Null
            ELSE BigOfInt32(ShiftLeft24(Shifted(parts[1])) + Shifted(parts[2]) * 65536
                            + Shifted(parts[3]) * 256 + parts[4].v)
        MapParse(strs) == [i \in 1..Len(strs) |-> ParseInt(strs[i])]
    IN  IF Includes(ip, ".") THEN Convert(MapParse(Split(ip, "."))) ELSE Null

\* parseCIDR: null for a prefix outside 0..32, for a prefix that is NaN (the BigInt
\* conversion throws) and for an address ipToBigInt rejects
ParseCIDR(cidr) ==
    LET Bounds(start, prefix) ==
            [null |-> FALSE, start |-> start,
             end |-> BigOr(start, Ones32ShiftedRight(prefix.v)), cidr |-> cidr]
        Build(prefix, ipBigInt) ==
            IF ~prefix.nan /\ (prefix.v < 0 \/ prefix.v > 32) THEN Null
            ELSE IF ipBigInt.null THEN Null
            ELSE IF prefix.nan THEN Null
            ELSE Bounds(BigAnd(ipBigInt, Ones32ShiftedLeft(32 - prefix.v)), prefix)
        Parse(fields) ==
            Build(IF Len(fields) >= 2 THEN ParseInt(fields[2]) ELSE NaN,
                  IpToBigInt(fields[1]))
    IN  Parse(Split(cidr, "/"))

\* the range isIPInRanges reads for one cidr: the cached one, else the parsed one
RangeOf(cidr, cache) ==
    IF cidr \in DOMAIN cache THEN cache[cidr] ELSE ParseCIDR(cidr)

InRange(ipBigInt, range) ==
    /\ ~range.null
    /\ BigLeq(range.start, ipBigInt)
    /\ BigLeq(ipBigInt, range.end)

\* isIPInRanges: true at the first cidr whose range holds the address
IsIPInRanges(ip, cidrs, cache) ==
    LET Scan(ipBigInt) ==
            /\ ~ipBigInt.null
            /\ \E i \in 1..Len(cidrs) : InRange(ipBigInt, RangeOf(cidrs[i], cache))
    IN  Scan(IpToBigInt(ip))

\* ipRangeCache after the call: every cidr looked at before the loop returned
\* and that parsed is cached
CacheAfter(ip, cidrs, cache) ==
    LET Extend(fresh) ==
            [c \in DOMAIN cache \cup DOMAIN fresh |->
                IF c \in DOMAIN cache THEN cache[c] ELSE fresh[c]]
        Parsed(seen) ==
            LET ranges == [c \in seen \ DOMAIN cache |-> ParseCIDR(c)]
            IN  Extend([c \in {d \in DOMAIN ranges : ~ranges[d].null} |-> ranges[c]])
        Seen(hits) ==
            Parsed({cidrs[i] : i \in 1..(IF hits = {} THEN Len(cidrs)
                                         ELSE CHOOSE i \in hits : \A j \in hits : i <= j)})
        Scan(ipBigInt) ==
            IF ipBigInt.null THEN cache
            ELSE Seen({i \in 1..Len(cidrs) : InRange(ipBigInt, RangeOf(cidrs[i], cache))})
    IN  Scan(IpToBigInt(ip))

\* "a.b.c.d" and "a.b.c.d/p" as the caller writes them
IpString(o) ==
    DecimalString(o[1]) \o <<".">> \o DecimalString(o[2]) \o <<".">>
        \o DecimalString(o[3]) \o <<".">> \o DecimalString(o[4])
CidrString(o, p) == IpString(o) \o <<"/">> \o DecimalString(p)

(***************************************************************************)
(* Signature registry and matcher  (SignatureLoader, SignatureMatcher)     *)
(***************************************************************************)
\* one EnhancedBotSignature; ipRanges and the verification hints are optional
Signature(name, category, subcategory, patterns, impact) ==
    [name |-> name, category |-> category, subcategory |-> subcategory,
     patterns |-> patterns, impact |-> impact,
     hasRanges |-> FALSE, ipRanges |-> <<>>, reverseDns |-> FALSE, headers |-> FALSE]
WithRanges(sig, cidrs) == [sig EXCEPT !.hasRanges = TRUE, !.ipRanges = cidrs]

\* /text[\d.]+/i and /text/i
VersionedPattern(text) == Regex(Lits(text) \o <<Cls("digitdot", "+")>>, TRUE, FALSE,
        FALSE)
WordPattern(text) == Regex(Lits(text), TRUE, FALSE, FALSE)

\* loadFallbackSignatures: the three signatures registered when the catalog fails
FallbackSignatures ==
    <<WithRanges(Signature("GPTBot", "extractive", "ai_training",
                           <<VersionedPattern(<<"G", "P", "T", "B", "o", "t", "/">>)>>,
                                   "extreme"),
                 <<<<"2", "0", ".", "1", "7", "1", ".", "0", ".", "0", "/", "1", "6">>,
                         <<"2", "0", ".", "1", "6", "3", ".", "0", ".", "0", "/", "1",
                         "6">>>>),
      WithRanges(Signature("Googlebot", "beneficial", "search_engine",
                           <<VersionedPattern(<<"G", "o", "o", "g", "l", "e", "b", "o",
                                   "t", "/">>), WordPattern(<<"G", "o", "o", "g", "l",
                                   "e", "b", "o", "t", "-", "I", "m", "a", "g",
                                   "e">>)>>, "low"),
                 <<<<"6", "6", ".", "2", "4", "9", ".", "6", "4", ".", "0", "/", "1",
                         "9">>>>),
      WithRanges(Signature("CCBot", "malicious", "ai_scraper",
                           <<VersionedPattern(<<"C", "C", "B", "o", "t", "/">>)>>,
                                   "extreme"),
                 <<<<"5", "4", ".", "3", "6", ".", "1", "4", "8", ".", "0", "/", "2",
                         "2">>>>)>>

\* initializeEnhancedSignatures: the matcher's own five signatures
BuiltInSignatures ==
    <<[WithRanges(Signature("GPTBot", "extractive", "ai_training",
                            <<VersionedPattern(<<"G", "P", "T", "B", "o", "t",
                                    "/">>)>>, "extreme"),
                  <<<<"2", "0", ".", "1", "7", "1", ".", "0", ".", "0", "/", "1",
                          "6">>, <<"2", "0", ".", "1", "6", "3", ".", "0", ".", "0",
                          "/", "1", "6">>>>)
          EXCEPT !.reverseDns = TRUE, !.headers = TRUE],
      WithRanges(Signature("ChatGPT-User", "extractive", "ai_training",
                           <<WordPattern(<<"C", "h", "a", "t", "G", "P", "T", "-", "U",
                                   "s", "e", "r">>)>>, "high"),
                 <<<<"2", "0", ".", "1", "7", "1", ".", "0", ".", "0", "/", "1", "6">>,
                         <<"4", "0", ".", "8", "4", ".", "1", "8", "0", ".", "0", "/",
                         "2", "2">>>>),
      [WithRanges(Signature("Googlebot", "beneficial", "search_engine",
                            <<VersionedPattern(<<"G", "o", "o", "g", "l", "e", "b",
                                    "o", "t", "/">>), WordPattern(<<"G", "o", "o", "g",
                                    "l", "e", "b", "o", "t", "-", "I", "m", "a", "g",
                                    "e">>),
                              WordPattern(<<"G", "o", "o", "g", "l", "e", "b", "o",
                                      "t", "-", "N", "e", "w", "s">>)>>, "low"),
                  <<<<"6", "6", ".", "2", "4", "9", ".", "6", "4", ".", "0", "/", "1",
                          "9">>, <<"6", "6", ".", "2", "4", "9", ".", "6", "4", ".",
                          "0", "/", "2", "7">>, <<"2", "0", "9", ".", "8", "5", ".",
                          "1", "2", "8", ".", "0", "/", "1", "7">>>>)
          EXCEPT !.reverseDns = TRUE],
      WithRanges(Signature("CCBot", "malicious", "ai_scraper",
                           <<VersionedPattern(<<"C", "C", "B", "o", "t", "/">>)>>,
                                   "extreme"),
                 <<<<"5", "4", ".", "3", "6", ".", "1", "4", "8", ".", "0", "/", "2",
                         "2">>, <<"5", "4", ".", "3", "6", ".", "1", "4", "9", ".",
                         "0", "/", "2", "4">>>>),
      WithRanges(Signature("Claude-Web", "extractive", "ai_training",
                           <<WordPattern(<<"C", "l", "a", "u", "d", "e", "-", "W", "e",
                                   "b">>), WordPattern(<<"a", "n", "t", "h", "r", "o",
                                   "p", "i", "c", "-", "a", "i">>)>>, "high"),
                 <<<<"5", "2", ".", "7", "0", ".", "0", ".", "0", "/", "1", "5">>>>)>>

\* getKnownIPRanges: the ranges the loader attaches to a catalog record by name
KnownIPRanges ==
    ("GPTBot" :> <<<<"2", "0", ".", "1", "7", "1", ".", "0", ".", "0", "/", "1", "6">>,
            <<"2", "0", ".", "1", "6", "3", ".", "0", ".", "0", "/", "1", "6">>>>) @@
    ("ChatGPT-User" :> <<<<"2", "0", ".", "1", "7", "1", ".", "0", ".", "0", "/", "1",
            "6">>, <<"4", "0", ".", "8", "4", ".", "1", "8", "0", ".", "0", "/", "2",
            "2">>>>) @@
    ("Googlebot" :> <<<<"6", "6", ".", "2", "4", "9", ".", "6", "4", ".", "0", "/",
            "1", "9">>, <<"6", "6", ".", "2", "4", "9", ".", "6", "4", ".", "0", "/",
            "2", "7">>, <<"2", "0", "9", ".", "8", "5", ".", "1", "2", "8", ".", "0",
            "/", "1", "7">>>>) @@
    ("GoogleBot" :> <<<<"6", "6", ".", "2", "4", "9", ".", "6", "4", ".", "0", "/",
            "1", "9">>, <<"6", "6", ".", "2", "4", "9", ".", "6", "4", ".", "0", "/",
            "2", "7">>, <<"2", "0", "9", ".", "8", "5", ".", "1", "2", "8", ".", "0",
            "/", "1", "7">>>>) @@
    ("bingbot" :> <<<<"4", "0", ".", "7", "7", ".", "1", "6", "7", ".", "0", "/", "2",
            "4">>, <<"2", "0", "7", ".", "4", "6", ".", "1", "3", ".", "0", "/", "2",
            "4">>>>) @@
    ("Bingbot" :> <<<<"4", "0", ".", "7", "7", ".", "1", "6", "7", ".", "0", "/", "2",
            "4">>, <<"2", "0", "7", ".", "4", "6", ".", "1", "3", ".", "0", "/", "2",
            "4">>>>) @@
    ("CCBot" :> <<<<"5", "4", ".", "3", "6", ".", "1", "4", "8", ".", "0", "/", "2",
            "2">>, <<"5", "4", ".", "3", "6", ".", "1", "4", "9", ".", "0", "/", "2",
            "4">>>>) @@
    ("Claude-Web" :> <<<<"5", "2", ".", "7", "0", ".", "0", ".", "0", "/", "1",
            "5">>>>) @@
    ("ClaudeBot" :> <<<<"5", "2", ".", "7", "0", ".", "0", ".", "0", "/", "1",
            "5">>>>) @@
    ("anthropic-ai" :> <<<<"5", "2", ".", "7", "0", ".", "0", ".", "0", "/", "1",
            "5">>>>) @@
    ("Bytespider" :> <<<<"1", "1", "0", ".", "2", "4", "9", ".", "2", "0", "1", ".",
            "0", "/", "2", "4">>, <<"1", "1", "1", ".", "2", "2", "5", ".", "1", "4",
            "8", ".", "0", "/", "2", "4">>>>) @@
    ("YandexBot" :> <<<<"5", ".", "2", "5", "5", ".", "2", "5", "3", ".", "0", "/",
            "2", "4">>, <<"5", ".", "2", "5", "5", ".", "2", "5", "4", ".", "0", "/",
            "2", "4">>>>) @@
    ("Baiduspider" :> <<<<"1", "8", "0", ".", "7", "6", ".", "1", "5", ".", "0", "/",
            "2", "4">>, <<"1", "2", "3", ".", "1", "2", "5", ".", "7", "1", ".", "0",
            "/", "2", "4">>>>)

\* getVerificationRules: the names that get a reverse-DNS hint
VerificationRuleNames == {"Googlebot", "GoogleBot", "bingbot", "Bingbot", "GPTBot",
        "YandexBot"}

\* the signature loadSignatures builds from one catalog record
SignatureOfRecord(rec) ==
    LET Verification(sig) == [sig EXCEPT !.reverseDns = rec.name \in VerificationRuleNames]
        Ranges(sig) == IF rec.name \in DOMAIN KnownIPRanges
                       THEN WithRanges(sig, KnownIPRanges[rec.name]) ELSE sig
    IN  Verification(Ranges(Signature(rec.name, rec.category, rec.subcategory,
                                      rec.patterns, rec.impact)))

\* the registry as a list that every set appends to
MapSetAppends(registry, sig) == Append(registry, sig)

\* Map.set(name, sig): replaces the value of an existing key in place, else appends
MapSet(registry, sig) ==
    IF \E i \in 1..Len(registry) : registry[i].name = sig.name
    THEN [registry EXCEPT ![CHOOSE i \in 1..Len(registry) : registry[i].name = sig.name] = sig]
    ELSE Append(registry, sig)

RECURSIVE MapSetAll(_, _)
MapSetAll(registry, sigs) ==
    IF sigs = <<>> THEN registry
    ELSE MapSetAll(MapSet(registry, Head(sigs)), Tail(sigs))

\* the heuristics and penalties of applyAdditionalVerification
StructuredUA == Regex(<<Lit("/"), Cls("digitdot", "+")>>, FALSE, FALSE, TRUE)
SuspiciousPatterns ==
    <<Regex(Lits(<<"M", "o", "z", "i", "l", "l", "a", "/", "5", ".", "0", " ", "(",
            "c", "o", "m", "p", "a", "t", "i", "b", "l", "e", ";",
            " ">>) \o <<Cls("word", "+"), Lit(")")>>,
            FALSE, TRUE, TRUE),
      WordPattern(<<"p", "y", "t", "h", "o", "n", "-", "r", "e", "q", "u", "e", "s",
              "t", "s">>), WordPattern(<<"c", "u", "r", "l">>), WordPattern(<<"w", "g",
              "e", "t">>)>>

ApplyAdditionalVerification(baseConfidence, signature, userAgent) ==
    LET Penalize(c) ==
            IF \E i \in 1..Len(SuspiciousPatterns) : Test(SuspiciousPatterns[i], userAgent)
            THEN F64Max(DoubleOf(100), F64Sub(c, DoubleOf(200))) ELSE c
        Headers(c) ==
            IF signature.headers /\ Len(userAgent) > 20 /\ Includes(userAgent, "/")
            THEN F64Add(c, DoubleOf(50)) ELSE c
        ReverseDns(c) ==
            IF signature.reverseDns /\ Test(StructuredUA, userAgent)
            THEN F64Add(c, DoubleOf(50)) ELSE c
    IN  F64Min(DoubleOf(1000), Penalize(Headers(ReverseDns(baseConfidence))))

\* mutant: a UA match outside the declared ranges keeps the no-IP confidence
VerificationConfidenceIgnoresSpoof(signature, ipVerified, ipSpoof) ==
    IF ~signature.hasRanges THEN DoubleOf(750)
    ELSE IF ipVerified THEN DoubleOf(950)
    ELSE DoubleOf(600)

\* the confidence matchEnhancedSignature starts from
VerificationConfidence(signature, ipVerified, ipSpoof) ==
    IF ~signature.hasRanges THEN DoubleOf(750)
    ELSE IF ipVerified THEN DoubleOf(950)
    ELSE IF ipSpoof THEN DoubleOf(300)
    ELSE DoubleOf(600)

NoMatch == [matched |-> FALSE]

\* index of the last signature, in registry order, one of whose patterns matches
LastMatching(registry, userAgent) ==
    LET Last_(hit) == IF hit = {} THEN 0 ELSE CHOOSE i \in hit : \A j \in hit : i >= j
    IN  Last_({i \in 1..Len(registry) :
                  \E j \in 1..Len(registry[i].patterns) :
                      Test(registry[i].patterns[j], userAgent)})
\* index of the first signature, in registry order, one of whose patterns matches
FirstMatching(registry, userAgent) ==
    LET First(hit) == IF hit = {} THEN 0 ELSE CHOOSE i \in hit : \A j \in hit : i <= j
    IN  First({i \in 1..Len(registry) :
                  \E j \in 1..Len(registry[i].patterns) :
                      Test(registry[i].patterns[j], userAgent)})

\* matchEnhancedSignature; an absent ip is the empty string
MatchEnhancedSignature(registry, userAgent, ip, cache) ==
    LET Classify(signature, ipVerified, ipSpoof) ==
            [matched |-> TRUE,
             botName |-> signature.name,
             category |-> signature.category,
             subcategory |-> signature.subcategory,
             confidence |-> ApplyAdditionalVerification(
                               VerificationConfidence(signature, ipVerified, ipSpoof),
                               signature, userAgent),
             verified |-> ipVerified,
             impact |-> signature.impact]
        Verify(signature, checked, inRanges) ==
            Classify(signature, checked /\ inRanges, checked /\ ~inRanges)
        Match(k) ==
            IF k = 0 THEN NoMatch
            ELSE Verify(registry[k], registry[k].hasRanges /\ ip # <<>>,
                        registry[k].hasRanges /\ ip # <<>>
                            /\ IsIPInRanges(ip, registry[k].ipRanges, cache))
    IN  Match(FirstMatching(registry, userAgent))

\* ipRangeCache after matchEnhancedSignature
CacheAfterMatch(registry, userAgent, ip, cache) ==
    LET After(k) ==
            IF k = 0 \/ ~registry[k].hasRanges \/ ip = <<>> THEN cache
            ELSE CacheAfter(ip, registry[k].ipRanges, cache)
    IN  After(FirstMatching(registry, userAgent))

\* BotDetector.detect, the legacy substring detector: the first row of its table
\* whose needle occurs in the user agent
LegacyDetect(table, userAgent) ==
    LET First(hit) ==
            IF hit = {} THEN [isBot |-> FALSE]
            ELSE [isBot |-> TRUE] @@ table[CHOOSE i \in hit : \A j \in hit : i <= j]
    IN  First({i \in 1..Len(table) : Test(WordPattern(table[i].needle), userAgent)})

\* convertBasicToClassification with mapSeverityToImpact
CategoryMap ==
    [search_engine |-> "beneficial", social_media |-> "beneficial",
     monitoring |-> "beneficial", ai_training |-> "extractive",
     ai_scraper |-> "extractive", ai_search |-> "extractive",
     scraper |-> "malicious", seo_tool |-> "malicious"]
SeverityMap == [low |-> "low", medium |-> "medium", high |-> "high",
        critical |-> "extreme"]
ConvertBasicToClassification(basic) ==
    [matched |-> TRUE,
     botName |-> basic.botName,
     category |-> IF basic.category \in DOMAIN CategoryMap
                  THEN CategoryMap[basic.category] ELSE "unknown",
     subcategory |-> basic.category,
     confidence |-> DoubleOf(basic.confidence),
     verified |-> FALSE,
     impact |-> IF basic.severity \in DOMAIN SeverityMap
                THEN SeverityMap[basic.severity] ELSE "medium"]

\* matchSignature on an initialized matcher
MatchSignature(registry, table, userAgent, ip, cache) ==
    LET Basic(basicMatch) ==
            IF basicMatch.isBot THEN ConvertBasicToClassification(basicMatch) ELSE NoMatch
        Enhanced(enhancedMatch) ==
            IF enhancedMatch.matched THEN enhancedMatch
            ELSE Basic(LegacyDetect(table, userAgent))
    IN  Enhanced(MatchEnhancedSignature(registry, userAgent, ip, cache))

(***************************************************************************)
(* Velocity analyzer  (VelocityAnalyzer).  Rates and ratios are exact      *)
(* rationals; the coefficient of variation, a square root, is kept as its  *)
(* square; the confidence, a sum of decimal literals, is a double.         *)
(***************************************************************************)
MaxRequestsPerSecond == 5
MaxRequestsPerMinute == 100
MinIntervalMs == 50
BurstThresholdMs == 1000

Sum(xs) == Loop(LAMBDA sum, x : sum + x, 0, xs)

GcdAll(xs) == Loop(LAMBDA g, x : Gcd(g, x), 0, xs)

\* x + t/1000 when cond holds, else x
AddIf(x, cond, t) == With1(LAMBDA v : IF cond THEN F64Add(v, DoubleOf(t)) ELSE v, x)

\* x - t/1000 when cond holds, else x
SubIf(x, cond, t) == With1(LAMBDA v : IF cond THEN F64Sub(v, DoubleOf(t)) ELSE v, x)

\* getTimeSpanSeconds, in milliseconds
TimeSpanMs(sorted) == IF Len(sorted) < 2 THEN 0 ELSE Last(sorted).ts - sorted[1].ts

\* calculateIntervals
CalculateIntervals(sorted) ==
    Listed([i \in 1..(Len(sorted) - 1) |-> sorted[i + 1].ts - sorted[i].ts])

\* the square of (stdDev / mean || 0) over non-negative values: the variance over
\* the squared mean is n * sum(x^2) / sum(x)^2 - 1, and a zero mean gives NaN || 0;
\* the values are divided by their common divisor first, which leaves it unchanged
SumOfSquares(xs) == Sum([i \in 1..Len(xs) |-> xs[i] * xs[i]])
VarianceOverSquaredMean(xs) ==
    Rat(Len(xs) * SumOfSquares(xs) - Sum(xs) * Sum(xs), Sum(xs) * Sum(xs))
DividedBy(values, g) == Listed([i \in 1..Len(values) |-> values[i] \div g])
CoefficientOver(values, g) ==
    IF g = 0 THEN Rat(0, 1) ELSE With1(VarianceOverSquaredMean, DividedBy(values, g))
CoefficientSquared(values) == With2(CoefficientOver, values, GcdAll(values))

\* detectBurstPatterns: runs of at least 3 intervals under a second, over
\* ceil(length / 10); the loop counts a run where it ends, at a longer interval or
\* at the end of the list, when the run's last three intervals are under a second
BurstEndsAt(intervals, i) ==
    /\ i >= 3
    /\ \A k \in (i - 2)..i : intervals[k] < BurstThresholdMs
    /\ (i = Len(intervals) \/ intervals[i + 1] >= BurstThresholdMs)
BurstCount(intervals) ==
    Cardinality({i \in 1..Len(intervals) : BurstEndsAt(intervals, i)})

DetectBurstPatterns(intervals) ==
    IF Len(intervals) < 5 THEN Rat(0, 1)
    ELSE RMin(Rat(1, 1), Rat(BurstCount(intervals), (Len(intervals) + 9) \div 10))

FastIntervals(intervals) == Len(SelectSeq(intervals, LAMBDA i : i < MinIntervalMs))

\* calculateBurstScore: min(1, 0.4 * max(0, 1 - 2 * coefficient) + rest) with
\* rest = 0.4 * speedScore + 0.2 * burstPatternScore
CalculateBurstScore(intervals) ==
    IF intervals = <<>> THEN [zero |-> TRUE, cvSq |-> Rat(0, 1), rest |-> Rat(0, 1)]
    ELSE [zero |-> FALSE,
          cvSq |-> CoefficientSquared(intervals),
          rest |-> RAdd(RMul(Rat(2, 5), Rat(FastIntervals(intervals), Len(intervals))),
                        RMul(Rat(1, 5), DetectBurstPatterns(intervals)))]

\* burstScore > t for a rational t in [0, 1): with the coefficient c under 1/2 it
\* reads 0.8 * c < rest + 0.4 - t, which is compared on the squares
WithinMargin(cvSq, m) == RLess(Rat(0, 1), m) /\ RLess(RMul(Rat(16, 25), cvSq), RMul(m, m))
BurstScoreAbove(burst, t) ==
    IF burst.zero THEN FALSE
    ELSE IF ~RLess(burst.cvSq, Rat(1, 4)) THEN RLess(t, burst.rest)
    ELSE WithinMargin(burst.cvSq, RAdd(RAdd(burst.rest, Rat(2, 5)), Rat(0 - t.n, t.d)))

\* the largest number of intervals that round to the same multiple of 100 ms
Bucket(x) == (x + 50) \div 100
BucketCount(intervals, b) == Len(SelectSeq(intervals, LAMBDA x : Bucket(x) = b))
MaxBucketCount(intervals) ==
    IF intervals = <<>> THEN 0
    ELSE CHOOSE m \in 1..Len(intervals) :
            /\ \E i \in 1..Len(intervals) : BucketCount(intervals, Bucket(intervals[i])) = m
            /\ \A i \in 1..Len(intervals) : BucketCount(intervals, Bucket(intervals[i])) <= m

\* isBotLikeVelocity; Math.max() of no interval is -Infinity
IsBotLikeVelocity(reqPerSec, reqPerMin, intervals, burstScore) ==
    \/ RLess(Rat(MaxRequestsPerSecond, 1), reqPerSec)
    \/ RLess(Rat(MaxRequestsPerMinute, 1), reqPerMin)
    \/ BurstScoreAbove(burstScore, Rat(4, 5))
    \/ 2 * FastIntervals(intervals) > Len(intervals)
    \/ (intervals # <<>> /\ 10 * MaxBucketCount(intervals) > 7 * Len(intervals))

\* calculateConfidence
ConsistencyBonus(c, cvSq) ==
    AddIf(AddIf(c, RLess(cvSq, Rat(1, 100)), 100), RLess(cvSq, Rat(1, 25)), 50)
PatternBonus(c, intervals) ==
    IF Len(intervals) > 5 THEN ConsistencyBonus(c, CoefficientSquared(intervals)) ELSE c
CalculateConfidence(sampleSize, timeSpanMs, intervals) ==
    F64Min(DoubleOf(1000),
           PatternBonus(AddIf(AddIf(AddIf(AddIf(AddIf(DoubleOf(500),
                                                      sampleSize >= 10, 200),
                                                sampleSize >= 50, 100),
                                          sampleSize >= 100, 100),
                                    timeSpanMs >= 60000, 100),
                              timeSpanMs >= 300000, 100),
                        intervals))

\* analyzeIPVelocity
VelocityMetrics(ip, sorted, intervals, reqPerSec, burstScore) ==
    [ip |-> ip,
     requestsPerSecond |-> reqPerSec,
     requestsPerMinute |-> RMul(reqPerSec, Rat(60, 1)),
     burstScore |-> burstScore,
     isBot |-> IsBotLikeVelocity(reqPerSec, RMul(reqPerSec, Rat(60, 1)), intervals,
                                 burstScore),
     confidence |-> CalculateConfidence(Len(sorted), TimeSpanMs(sorted), intervals)]
RequestsPerSecond(sorted) ==
    IF TimeSpanMs(sorted) > 0 THEN Rat(Len(sorted) * 1000, TimeSpanMs(sorted))
    ELSE Rat(0, 1)
VelocityOfIntervals(ip, sorted, intervals) ==
    With2(LAMBDA reqPerSec, burstScore :
              VelocityMetrics(ip, sorted, intervals, reqPerSec, burstScore),
          RequestsPerSecond(sorted), CalculateBurstScore(intervals))
VelocityOfSorted(ip, sorted) ==
    With1(LAMBDA intervals : VelocityOfIntervals(ip, sorted, intervals),
          CalculateIntervals(sorted))
AnalyzeIPVelocity(ip, requests) ==
    IF requests = <<>>
    THEN [ip |-> ip, requestsPerSecond |-> Rat(0, 1), requestsPerMinute |-> Rat(0, 1),
          burstScore |-> CalculateBurstScore(<<>>), isBot |-> FALSE,
          confidence |-> DoubleOf(1000)]
    ELSE With1(LAMBDA sorted : VelocityOfSorted(ip, sorted), SortByTs(requests))

\* the addresses of the entries in the order in which groupByIP meets them
IpsInOrder(es, seen) ==
    Loop(LAMBDA ips, e : IF OrUnknown(e.ip) \in Range(ips) THEN ips
                         ELSE Append(ips, OrUnknown(e.ip)),
         seen, es)

\* analyzeVelocity: one analysis per address
RequestsOfIp(es, ip) == SelectSeq(es, LAMBDA e : OrUnknown(e.ip) = ip)
VelocityPerIp(es, ips) ==
    Map(LAMBDA ip : AnalyzeIPVelocity(ip, RequestsOfIp(es, ip)), ips)
AnalyzeVelocity(es) == With2(VelocityPerIp, es, IpsInOrder(es, <<>>))

(***************************************************************************)
(* Pattern analyzer  (PatternAnalyzer).  Scores are exact rationals; the   *)
(* depth consistency, 1 - stdDev / avgDepth, is kept as the square of the  *)
(* quotient; the confidence, a score plus decimal literals, is a double,   *)
(* with the exact sum kept beside it for the weighted mean.                *)
(***************************************************************************)
\* ascending numeric sort
InsertInt(sorted, x) ==
    SelectSeq(sorted, LAMBDA y : y <= x) \o <<x>> \o SelectSeq(sorted, LAMBDA y : y > x)

SortInts(xs) == Loop(InsertInt, <<>>, xs)

\* the longest run, found by the loop from index i on, of values each one more
\* than the one before
ConsecutiveStep(matches, s, i) ==
    IF matches[i] = matches[i - 1] + 1
    THEN [consecutiveCount |-> s.consecutiveCount + 1,
          maxConsecutive |-> IF s.consecutiveCount + 1 > s.maxConsecutive
                             THEN s.consecutiveCount + 1 ELSE s.maxConsecutive]
    ELSE [s EXCEPT !.consecutiveCount = 1]
MaxConsecutive(matches, i, consecutiveCount, maxConsecutive) ==
    Loop(LAMBDA s, k : ConsecutiveStep(matches, s, k),
         [consecutiveCount |-> consecutiveCount, maxConsecutive |-> maxConsecutive],
         [k \in 1..(Len(matches) - i + 1) |-> k + i - 1]).maxConsecutive

\* the patterns of detectSequentialAccess: the text before the (\d+) group, the
\* text after it, and the i flag
SequencePatterns ==
    <<[before |-> <<"/", "p", "a", "g", "e", "/">>, after |-> <<>>, ci |-> TRUE],
      [before |-> <<"/", "p">>, after |-> <<>>, ci |-> TRUE],
      [before |-> <<"/">>, after |-> <<"/">>, ci |-> FALSE],
      [before |-> <<"?", "p", "a", "g", "e", "=">>, after |-> <<>>, ci |-> TRUE],
      [before |-> <<"?", "p", "=">>, after |-> <<>>, ci |-> TRUE],
      [before |-> <<"/", "p", "r", "o", "d", "u", "c", "t", "/">>, after |-> <<>>,
              ci |-> TRUE],
      [before |-> <<"/", "a", "r", "t", "i", "c", "l", "e", "/">>, after |-> <<>>,
              ci |-> TRUE],
      [before |-> <<"/", "i", "t", "e", "m", "/">>, after |-> <<>>, ci |-> TRUE],
      [before |-> <<"/", "p", "o", "s", "t", "/">>, after |-> <<>>, ci |-> TRUE]>>

\* path.match(pattern) and parseInt(match[1]): no number or one, as a list
SequenceRegex(pattern) ==
    Regex(Lits(pattern.before) \o <<Cls("digit", "+")>> \o Lits(pattern.after),
          pattern.ci, FALSE, FALSE)
NumberAt(path, b) == IF b = 0 THEN <<>> ELSE <<DigitsValue(path, b, DigitRun(path, b))>>
CapturedAt(path, pattern, at) ==
    IF at = 0 THEN <<>> ELSE NumberAt(path, at + Len(pattern.before))
CapturedNumber(path, pattern) ==
    With1(LAMBDA at : CapturedAt(path, pattern, at),
          MatchIndex(SequenceRegex(pattern), path))

\* maxConsecutive / matches.length when there are at least min matches, else 0
RatioOfSorted(matches, min) ==
    IF Len(matches) < min THEN Rat(0, 1)
    ELSE Rat(MaxConsecutive(matches, 2, 1, 1), Len(matches))
SequenceRatio(matches, min) == With2(RatioOfSorted, matches, min)

\* detectAlphabeticalSequence: /\/([a-z])\//i, the letters as their rank
LetterSegment == Regex(<<Lit("/"), Cls("letter", "1"), Lit("/")>>, TRUE, FALSE, FALSE)
LetterAt(path, at) == IF at = 0 THEN <<>> ELSE <<LetterIndex(path[at + 1])>>
CapturedLetter(path) ==
    With1(LAMBDA at : LetterAt(path, at), MatchIndex(LetterSegment, path))
DetectAlphabeticalSequence(paths) ==
    SequenceRatio(SortInts(Flatten([k \in 1..Len(paths) |-> CapturedLetter(paths[k])])), 3)

RECURSIVE RMaxAll(_)
RMaxAll(rs) == IF rs = <<>> THEN Rat(0, 1) ELSE RMax(Head(rs), RMaxAll(Tail(rs)))

\* detectSequentialAccess
CapturedNumbers(paths, pattern) ==
    SortInts(Flatten([k \in 1..Len(paths) |-> CapturedNumber(paths[k], pattern)]))
DetectSequentialAccess(paths) ==
    IF Len(paths) < 3 THEN Rat(0, 1)
    ELSE RMin(Rat(1, 1),
              RMax(RMaxAll([p \in 1..Len(SequencePatterns) |->
                               SequenceRatio(CapturedNumbers(paths,
                                       SequencePatterns[p]), 3)]),
                   DetectAlphabeticalSequence(paths)))

\* (path.match(/\//g) || []).length
Depth(path) == Len(SelectSeq(path, LAMBDA c : c = "/"))

\* detectHierarchicalCrawling
HierarchyScore(paths, depths, shallow) ==
    IF Len(depths) < 3 THEN Rat(0, 1)
    ELSE RAdd(IF 5 * shallow > 3 * Len(paths) THEN Rat(1, 2) ELSE Rat(0, 1),
              IF \A i \in 2..Len(depths) : depths[i] = depths[i - 1] + 1
              THEN Rat(3, 10) ELSE Rat(0, 1))
PathsOfDepth(paths, d) == Len(SelectSeq(paths, LAMBDA p : Depth(p) = d))
HierarchyOfDepths(paths, depths) ==
    HierarchyScore(paths, depths, IF depths = <<>> THEN 0 ELSE PathsOfDepth(paths,
            depths[1]))
\* the distinct depths, ascending
DistinctAmong(depths) ==
    SelectSeq([d \in 1..(Sum(depths) + 1) |-> d - 1],
              LAMBDA d : \E k \in 1..Len(depths) : depths[k] = d)
DistinctDepths(paths) ==
    With1(DistinctAmong, Listed([k \in 1..Len(paths) |-> Depth(paths[k])]))
DetectHierarchicalCrawling(paths) ==
    With1(LAMBDA depths : HierarchyOfDepths(paths, depths), DistinctDepths(paths))

\* url.searchParams of 'http://example.com' + path: the key=value pieces of the
\* text after the first '?', as [key, value] records
KeyValue(piece, eq) ==
    IF eq = 0 THEN [key |-> piece, value |-> <<>>]
    ELSE [key |-> SubSeq(piece, 1, eq - 1), value |-> SubSeq(piece, eq + 1, Len(piece))]
KeyValues(ps) == Listed([k \in 1..Len(ps) |-> KeyValue(ps[k], IndexOf(ps[k], "=", 1))])
QueryPieces(query) == SelectSeq(Split(query, "&"), LAMBDA piece : piece # <<>>)
SearchParams(path) ==
    IF IndexOf(path, "?", 1) = 0 THEN <<>>
    ELSE KeyValues(QueryPieces(SubSeq(path, IndexOf(path, "?", 1) + 1, Len(path))))

\* detectParameterSweeping: the most distinct values of one key, over the number
\* of paths, doubled and capped
ValuesOfKey(params, key) ==
    {params[i].value : i \in {j \in 1..Len(params) : params[j].key = key}}
ParameterVariety(paths, params) ==
    RMaxAll([i \in 1..Len(params) |->
                Rat(Cardinality(ValuesOfKey(params, params[i].key)), Len(paths))])
DetectParameterSweeping(paths) ==
    RMin(Rat(1, 1),
         RMul(Rat(2, 1),
              With1(LAMBDA params : ParameterVariety(paths, params),
                    Flatten([k \in 1..Len(paths) |-> SearchParams(paths[k])]))))

CrawlerExtensions ==
    { <<"x", "m", "l">>, <<"j", "s", "o", "n">>, <<"r", "s", "s">>, <<"a", "t", "o",
            "m">>, <<"t", "x", "t">>, <<"c", "s", "v">> }

\* detectExtensionPatterns: /\.([a-z0-9]+)$/i, lower-cased
ExtensionRegex == Regex(<<Lit("."), Cls("alnum", "+")>>, TRUE, FALSE, TRUE)
LowerCaseFrom(path, b) == Listed([i \in 1..(Len(path) - b) |-> ToLowerCase(path[b + i])])
ExtensionAt(path, at) == IF at = 0 THEN <<>> ELSE LowerCaseFrom(path, at)
Extension(path) ==
    With1(LAMBDA at : ExtensionAt(path, at), MatchIndex(ExtensionRegex, path))
DetectExtensionPatterns(paths) ==
    Rat(Len(SelectSeq(paths, LAMBDA p : Extension(p) \in CrawlerExtensions)),
            Len(paths))

RobotsTxt == Regex(Lits(<<"r", "o", "b", "o", "t", "s", ".", "t", "x", "t">>), TRUE,
        FALSE, TRUE)
SitemapXml == Regex(Lits(<<"s", "i", "t", "e", "m", "a", "p">>) \o <<Cls("any",
        "*")>> \o Lits(<<".", "x", "m", "l">>), TRUE, FALSE, TRUE)

\* the botPatterns of detectCommonCrawlPatterns
BotPatterns ==
    <<RobotsTxt, SitemapXml,
      Regex(Lits(<<".", "w", "e", "l", "l", "-", "k", "n", "o", "w", "n">>), TRUE,
              FALSE, FALSE),
      Regex(Lits(<<"/", "a", "p", "i", "/">>), TRUE, FALSE, FALSE),
      Regex(Lits(<<"/", "a", "d", "m", "i", "n">>), TRUE, FALSE, FALSE),
      Regex(Lits(<<"/", "w", "p", "-">>), TRUE, FALSE, FALSE),
      Regex(Lits(<<"/", "f", "e", "e", "d">>), TRUE, FALSE, FALSE),
      Regex(Lits(<<"/", "r", "s", "s">>), TRUE, FALSE, FALSE)>>

\* detectCommonCrawlPatterns
DetectCommonCrawlPatterns(paths) ==
    Rat(Len(SelectSeq(paths,
            LAMBDA p : \E k \in 1..Len(BotPatterns) : Test(BotPatterns[k], p))),
        Len(paths))

\* detectSystematicCrawling
DetectSystematicCrawling(paths) ==
    IF Len(paths) < 5 THEN Rat(0, 1)
    ELSE RMin(Rat(1, 1),
              RMax(RMax(DetectHierarchicalCrawling(paths),
                      DetectParameterSweeping(paths)),
                   RMax(DetectExtensionPatterns(paths),
                           DetectCommonCrawlPatterns(paths))))

\* detectSitemapAccess
DetectSitemapAccess(paths) ==
    \E k \in 1..Len(paths) : Test(SitemapXml, paths[k]) \/ Test(RobotsTxt, paths[k])

\* analyzeURLDepth: Math.max(0, 1 - stdDev / avgDepth); with no slash in any
\* path the quotient is 0 / 0 and the result NaN
DepthConsistency(depths) ==
    [zero |-> FALSE, nan |-> Sum(depths) = 0, cvSq |-> CoefficientSquared(depths)]
AnalyzeURLDepth(paths) ==
    IF paths = <<>> THEN [zero |-> TRUE, nan |-> FALSE, cvSq |-> Rat(0, 1)]
    ELSE With1(DepthConsistency, Listed([k \in 1..Len(paths) |-> Depth(paths[k])]))

\* depthConsistency > t for a rational t in [0, 1): stdDev / avgDepth < 1 - t,
\* compared on the squares; a comparison with NaN is false
DepthConsistencyAbove(dc, t) ==
    /\ ~dc.zero
    /\ ~dc.nan
    /\ RLess(dc.cvSq, RMul(Rat(t.d - t.n, t.d), Rat(t.d - t.n, t.d)))

\* determinePatternType with the systematic test ahead of the sequential one
PatternTypeSystematicFirst(sequentialScore, systematicScore, sitemapAccess, depthConsistency, pathCount) ==
    IF RLess(Rat(1, 2), systematicScore) \/ sitemapAccess THEN "systematic"
    ELSE IF RLess(Rat(3, 5), sequentialScore) THEN "sequential"
    ELSE IF pathCount < 10 /\ DepthConsistencyAbove(depthConsistency, Rat(4, 5))
    THEN "targeted"
    ELSE "random"
\* determinePatternType
PatternType(sequentialScore, systematicScore, sitemapAccess, depthConsistency, pathCount) ==
    IF RLess(Rat(3, 5), sequentialScore) THEN "sequential"
    ELSE IF RLess(Rat(1, 2), systematicScore) \/ sitemapAccess THEN "systematic"
    ELSE IF pathCount < 10 /\ DepthConsistencyAbove(depthConsistency, Rat(4, 5))
    THEN "targeted"
    ELSE "random"

\* the number of 0.1 boosts added to the total score
PatternBoosts(depthConsistency, pathCount) ==
    (IF pathCount >= 20 THEN 1 ELSE 0) + (IF pathCount >= 50 THEN 1 ELSE 0)
    + (IF DepthConsistencyAbove(depthConsistency, Rat(7, 10)) THEN 1 ELSE 0)

PatternConfidence(totalScore, depthConsistency, pathCount) ==
    F64Min(DoubleOf(1000),
           AddIf(AddIf(AddIf(DoubleOfRatio(totalScore.n, totalScore.d),
                             pathCount >= 20, 100),
                       pathCount >= 50, 100),
                 DepthConsistencyAbove(depthConsistency, Rat(7, 10)), 100))

TotalScore(sequentialScore, systematicScore, sitemapAccess) ==
    RMax(RMax(sequentialScore, systematicScore),
         IF sitemapAccess THEN Rat(3, 10) ELSE Rat(0, 1))

DeterminePatternType(sequentialScore, systematicScore, sitemapAccess, depthConsistency, pathCount) ==
    [confidence |->
         With1(LAMBDA totalScore :
                   PatternConfidence(totalScore, depthConsistency, pathCount),
               TotalScore(sequentialScore, systematicScore, sitemapAccess)),
     exact |->
         RMin(Rat(1, 1),
              RAdd(TotalScore(sequentialScore, systematicScore, sitemapAccess),
                   Rat(PatternBoosts(depthConsistency, pathCount), 10))),
     type |-> PatternType(sequentialScore, systematicScore, sitemapAccess,
             depthConsistency,
                          pathCount)]

\* getSamplePaths
GetSamplePaths(paths, maxCount) ==
    IF Len(paths) <= maxCount THEN paths
    ELSE Listed([k \in 1..maxCount |-> paths[(k - 1) * (Len(paths) \div maxCount) + 1]])

\* analyzePattern
PatternResult(paths, verdict, sequentialScore, systematicScore, sitemapAccess, depthConsistency) ==
    [type |-> verdict.type,
     confidence |-> verdict.confidence,
     exact |-> verdict.exact,
     paths |-> GetSamplePaths(paths, 10),
     indicators |-> [sequentialScore |-> sequentialScore,
                     systematicScore |-> systematicScore,
                     sitemapAccess |-> sitemapAccess,
                     depthConsistency |-> depthConsistency]]
PatternOfScores(paths, sequentialScore, systematicScore, sitemapAccess, depthConsistency) ==
    With1(LAMBDA verdict :
              PatternResult(paths, verdict, sequentialScore, systematicScore,
                            sitemapAccess, depthConsistency),
          DeterminePatternType(sequentialScore, systematicScore, sitemapAccess,
                               depthConsistency, Len(paths)))
PatternOfPaths(paths) ==
    With2(LAMBDA sequentialScore, systematicScore :
              With2(LAMBDA sitemapAccess, depthConsistency :
                        PatternOfScores(paths, sequentialScore, systematicScore,
                                        sitemapAccess, depthConsistency),
                    DetectSitemapAccess(paths), AnalyzeURLDepth(paths)),
          DetectSequentialAccess(paths), DetectSystematicCrawling(paths))
\* entry.path || '/'
PathsOf(es) == Listed([k \in 1..Len(es) |-> IF es[k].path = <<>> THEN <<"/">> ELSE es[k].path])
AnalyzePattern(es) ==
    IF es = <<>>
    THEN [type |-> "random", confidence |-> DoubleOf(0), exact |-> Rat(0, 1),
          paths |-> <<>>,
          indicators |-> [sequentialScore |-> Rat(0, 1), systematicScore |-> Rat(0, 1),
                          sitemapAccess |-> FALSE,
                          depthConsistency |-> AnalyzeURLDepth(<<>>)]]
    ELSE With1(PatternOfPaths, PathsOf(es))

\* new URL('http://example.com' + path) throws a TypeError when what the path
\* puts before its first '/', '?', '#' or '\' does not continue the authority
\* example.com: the host may hold no forbidden code point, and after a ':' come
\* the digits of a port up to 65535 (for a path without '@')
PathStarters == {"/", "?", "#", "\\"}

RECURSIVE AuthorityTail(_)
AuthorityTail(path) ==
    IF path = <<>> \/ Head(path) \in PathStarters THEN <<>>
    ELSE <<Head(path)>> \o AuthorityTail(Tail(path))

ForbiddenHostCodePoints == {" ", "<", ">", "[", "]", "^", "|"}

InvalidPort(port) ==
    \/ \E i \in 1..Len(port) : ~IsDigit(port[i])
    \/ DigitsValue(port, 1, Len(port)) > 65535

InvalidAuthority(tail, colon) ==
    IF colon = 0 THEN Range(tail) \cap ForbiddenHostCodePoints # {}
    ELSE \/ Range(SubSeq(tail, 1, colon - 1)) \cap ForbiddenHostCodePoints # {}
         \/ InvalidPort(SubSeq(tail, colon + 1, Len(tail)))

UrlThrows(path) ==
    InvalidAuthority(AuthorityTail(path), IndexOf(AuthorityTail(path), ":", 1))

\* detectParameterSweeping throws what new URL throws on one of its paths
DetectParameterSweepingThrows(paths) == \E k \in 1..Len(paths) : UrlThrows(paths[k])

\* analyzePattern throws: detectSystematicCrawling reaches detectParameterSweeping
\* with five paths or more
AnalyzePatternThrows(es) ==
    /\ Len(es) >= 5
    /\ DetectParameterSweepingThrows(PathsOf(es))

(***************************************************************************)
(* Behavior analyzer  (BehaviorAnalyzer.analyzeSession)                    *)
(***************************************************************************)
\* the alternatives of /\.(css|js|jpg|jpeg|png|gif|svg|woff2?|ttf|ico|webp)$/i
AssetExtensions ==
    <<<<".", "c", "s", "s">>, <<".", "j", "s">>, <<".", "j", "p", "g">>, <<".", "j",
            "p", "e", "g">>, <<".", "p", "n", "g">>, <<".", "g", "i", "f">>, <<".",
            "s", "v", "g">>, <<".", "w", "o", "f", "f">>,
      <<".", "w", "o", "f", "f", "2">>, <<".", "t", "t", "f">>, <<".", "i", "c", "o">>,
              <<".", "w", "e", "b", "p">>>>

\* checkAssetsLoaded
CheckAssetsLoaded(es) ==
    \E k \in 1..Len(es) :
        \/ \E x \in 1..Len(AssetExtensions) :
              Test(Regex(Lits(AssetExtensions[x]), TRUE, FALSE, TRUE), es[k].path)
        \/ IncludesString(es[k].path, <<"/", "a", "s", "s", "e", "t", "s", "/">>)
        \/ IncludesString(es[k].path, <<"/", "s", "t", "a", "t", "i", "c", "/">>)

\* checkRefererPresence
CheckRefererPresence(es) == \E k \in 1..Len(es) : es[k].referer # <<>>

\* checkHomepageVisit over e.path || '/'
CheckHomepageVisit(es) ==
    \E k \in 1..Len(es) : es[k].path \in {<<>>, <<"/">>, <<"/", "i", "n", "d", "e",
            "x", ".", "h", "t", "m", "l">> }

\* checkVaryingResponseTimes: the variance of the response times that are
\* present and positive exceeds 100, with at least 3 of them
VarianceAbove100(rts) ==
    /\ Len(rts) >= 3
    /\ Len(rts) * Sum([i \in 1..Len(rts) |-> rts[i] * rts[i]]) - Sum(rts) * Sum(rts)
           > 100 * Len(rts) * Len(rts)
CheckVaryingResponseTimes(es) ==
    With1(VarianceAbove100,
          SelectSeq([k \in 1..Len(es) |-> es[k].rt], LAMBDA rt : rt > 0))

\* checkRealisticSessionLength: between 1 minute and 4 hours
CheckRealisticSessionLength(session) ==
    /\ session.endTime - session.startTime >= 60000
    /\ session.endTime - session.startTime <= 14400000

\* calculateHumanScore; avgTimePerPage is sessionDuration over perPage
DurationScore(score, sessionDuration) ==
    IF sessionDuration >= 120000 /\ sessionDuration <= 3600000
    THEN AddIf(score, TRUE, 100)
    ELSE SubIf(score, sessionDuration < 30000, 200)
PagesScore(score, pagesViewed) ==
    IF pagesViewed >= 3 /\ pagesViewed <= 20 THEN AddIf(score, TRUE, 50)
    ELSE SubIf(score, pagesViewed > 50, 150)
TimePerPageScore(score, sessionDuration, perPage) ==
    IF sessionDuration >= 5000 * perPage /\ sessionDuration <= 300000 * perPage
    THEN AddIf(score, TRUE, 100)
    ELSE SubIf(score, sessionDuration < 1000 * perPage, 200)
CalculateHumanScore(sessionDuration, pagesViewed, perPage, assetsLoaded, hasReferer, viewsHomepage, varyingResponseTimes, realisticSessionLength) ==
    F64Max(DoubleOf(0),
           F64Min(DoubleOf(1000),
                  DurationScore(
                      PagesScore(
                          TimePerPageScore(
                              AddIf(AddIf(AddIf(AddIf(AddIf(DoubleOf(500),
                                                            assetsLoaded, 150),
                                                      hasReferer, 100),
                                                viewsHomepage, 100),
                                          varyingResponseTimes, 100),
                                    realisticSessionLength, 100),
                              sessionDuration, perPage),
                          pagesViewed),
                      sessionDuration)))

\* analyzeSession
BehaviorOf(session, sessionDuration, pagesViewed, perPage, assetsLoaded, hasReferer, viewsHomepage, varyingResponseTimes, realisticSessionLength) ==
    [sessionId |-> session.sessionId,
     sessionDuration |-> sessionDuration,
     pagesViewed |-> pagesViewed,
     avgTimePerPage |-> Rat(sessionDuration, perPage),
     assetsLoaded |-> assetsLoaded,
     hasReferer |-> hasReferer,
     humanScore |->
         CalculateHumanScore(sessionDuration, pagesViewed, perPage, assetsLoaded,
                             hasReferer, viewsHomepage, varyingResponseTimes,
                             realisticSessionLength),
     patterns |-> [viewsHomepage |-> viewsHomepage,
                   varyingResponseTimes |-> varyingResponseTimes,
                   realisticSessionLength |-> realisticSessionLength]]
AnalyzeChecked(session, assetsLoaded, hasReferer, viewsHomepage, varyingResponseTimes) ==
    BehaviorOf(session, session.endTime - session.startTime, Len(session.entries),
               IF Len(session.entries) > 1 THEN Len(session.entries) - 1 ELSE 1,
               assetsLoaded, hasReferer, viewsHomepage, varyingResponseTimes,
               CheckRealisticSessionLength(session))
AnalyzeEntries(session, es) ==
    With2(LAMBDA assetsLoaded, hasReferer :
              With2(LAMBDA viewsHomepage, varyingResponseTimes :
                        AnalyzeChecked(session, assetsLoaded, hasReferer, viewsHomepage,
                                       varyingResponseTimes),
                    CheckHomepageVisit(es), CheckVaryingResponseTimes(es)),
          CheckAssetsLoaded(es), CheckRefererPresence(es))
AnalyzeSession(session) ==
    With1(LAMBDA s : With1(LAMBDA es : AnalyzeEntries(s, es), s.entries), session)

\* analyzeBehavior
AnalyzeSessions(ss) == Map(AnalyzeSession, ss)
AnalyzeBehavior(es) == IF es = <<>> THEN <<>> ELSE AnalyzeSessions(GroupIntoSessions(es))

(***************************************************************************)
(* Classifier  (BotClassifier).  The confidence of a signature match is a  *)
(* double; the weighted mean of buildClassificationFromAnalyses is the     *)
(* exact rational mean of the contributing values.                         *)
(***************************************************************************)
ConfidenceWeights ==
    [velocity |-> Rat(1, 4), pattern |-> Rat(1, 4), signature |-> Rat(7, 20),
     behavior |-> Rat(3, 20)]

\* confidence > t/1000 and confidence < t/1000, on a double or on a rational
ConfidenceAbove(c, t) ==
    IF "hi" \in DOMAIN c THEN F64Less(DoubleOf(t), c) ELSE RLess(Rat(t, 1000), c)
ConfidenceBelow(c, t) ==
    IF "hi" \in DOMAIN c THEN F64Less(c, DoubleOf(t)) ELSE RLess(c, Rat(t, 1000))

\* adjustConfidenceWithOtherAnalyses
AdjustForVelocity(c, velocity) ==
    IF velocity.isBot THEN F64Add(c, DoubleOf(100))
    ELSE SubIf(c, F64Less(DoubleOf(700), velocity.confidence), 100)
AdjustForPattern(c, pattern) == AddIf(c, F64Less(DoubleOf(700), pattern.confidence),
        100)
AdjustForBehavior(c, behavior) ==
    IF F64Less(behavior.humanScore, DoubleOf(300)) THEN F64Add(c, DoubleOf(100))
    ELSE SubIf(c, F64Less(DoubleOf(700), behavior.humanScore), 150)
AdjustConfidenceWithOtherAnalyses(baseConfidence, velocity, pattern, behavior) ==
    F64Max(DoubleOf(100),
           F64Min(DoubleOf(1000),
                  AdjustForBehavior(AdjustForPattern(AdjustForVelocity(baseConfidence,
                                                                       velocity),
                                                     pattern),
                                    behavior)))

\* generateBotName
GenerateBotName(velocity, pattern) ==
    IF RLess(Rat(10, 1), velocity.requestsPerSecond) THEN "Aggressive Bot"
    ELSE IF pattern.type = "systematic" THEN "Systematic Crawler"
    ELSE IF pattern.type = "sequential" THEN "Sequential Bot"
    ELSE "Unknown Bot"

\* determineImpact without its high and medium grades
DetermineImpactExtremeOrLow(velocity, pattern, confidence) ==
    IF RLess(Rat(10, 1), velocity.requestsPerSecond)
       \/ RLess(Rat(500, 1), velocity.requestsPerMinute)
    THEN "extreme"
    ELSE "low"
\* determineImpact
DetermineImpact(velocity, pattern, confidence) ==
    IF RLess(Rat(10, 1), velocity.requestsPerSecond)
       \/ RLess(Rat(500, 1), velocity.requestsPerMinute)
    THEN "extreme"
    ELSE IF RLess(Rat(5, 1), velocity.requestsPerSecond) \/ ConfidenceAbove(confidence,
            800)
    THEN "high"
    ELSE IF F64Less(DoubleOf(700), pattern.confidence) THEN "medium"
    ELSE "low"

\* determinePurpose
DeterminePurpose(pattern, velocity) ==
    IF pattern.type = "systematic" /\ pattern.indicators.sitemapAccess
    THEN "Search Engine Crawling"
    ELSE IF pattern.type = "sequential" THEN "Content Extraction"
    ELSE IF RLess(Rat(5, 1), velocity.requestsPerSecond) THEN "Mass Data Collection"
    ELSE "Unknown"

\* buildClassificationFromAnalyses: each analyzer that crosses its threshold
\* contributes its value times its weight, and the sum is divided by the sum of
\* the contributing weights
BuiltCategory(velocity, pattern) ==
    IF pattern.type = "systematic" /\ RLess(Rat(2, 1), velocity.requestsPerSecond)
    THEN "extractive"
    ELSE IF RLess(Rat(10, 1), velocity.requestsPerSecond) THEN "malicious"
    ELSE IF pattern.type = "sequential" THEN "extractive"
    ELSE "unknown"
BuiltSubcategory(velocity, pattern) ==
    IF pattern.type = "systematic" /\ RLess(Rat(2, 1), velocity.requestsPerSecond)
    THEN "scraper"
    ELSE IF RLess(Rat(10, 1), velocity.requestsPerSecond) THEN "aggressive_scraper"
    ELSE IF pattern.type = "sequential" THEN "crawler"
    ELSE "unknown"
BuiltClassification(velocity, pattern, finalConfidence) ==
    [botName |-> GenerateBotName(velocity, pattern),
     category |-> BuiltCategory(velocity, pattern),
     subcategory |-> BuiltSubcategory(velocity, pattern),
     confidence |-> finalConfidence,
     verified |-> FALSE,
     impact |-> DetermineImpact(velocity, pattern, finalConfidence),
     metadata |-> [operator |-> "Unknown",
                   purpose |-> DeterminePurpose(pattern, velocity),
                   respectsRobotsTxt |-> FALSE,
                   averageCrawlRate |-> velocity.requestsPerMinute]]
\* mutant: the weighted sum is not divided by the contributing weights
FinalConfidenceNotNormalized(sum) ==
    IF RLess(Rat(0, 1), sum.weights) THEN sum.confidence ELSE Rat(0, 1)
\* totalWeights > 0 ? confidence / totalWeights : 0
FinalConfidence(sum) ==
    IF RLess(Rat(0, 1), sum.weights)
    THEN Rat(sum.confidence.n * sum.weights.d, sum.confidence.d * sum.weights.n)
    ELSE Rat(0, 1)
Contribution(sum, contributes, value, weight) ==
    IF contributes
    THEN [confidence |-> RAdd(sum.confidence, RMul(value, weight)),
          weights |-> RAdd(sum.weights, weight)]
    ELSE sum
Contributions(velocity, pattern, behavior) ==
    Contribution(
        Contribution(
            Contribution([confidence |-> Rat(0, 1), weights |-> Rat(0, 1)],
                         velocity.isBot,
                         Rat(Thousandths(velocity.confidence), 1000),
                         ConfidenceWeights.velocity),
            F64Less(DoubleOf(500), pattern.confidence), pattern.exact,
            ConfidenceWeights.pattern),
        F64Less(DoubleOf(500), F64Sub(DoubleOf(1000), behavior.humanScore)),
        Rat(1000 - Thousandths(behavior.humanScore), 1000), ConfidenceWeights.behavior)
BuildClassificationFromAnalyses(velocity, pattern, behavior) ==
    BuiltClassification(velocity, pattern,
                        FinalConfidence(Contributions(velocity, pattern, behavior)))

\* combineAnalysis: a signature match keeps its fields and has its confidence
\* adjusted; without one the classification is built from the other analyses
CombineAnalysis(velocity, pattern, signature, behavior) ==
    IF signature.matched
    THEN [botName |-> signature.botName,
          category |-> signature.category,
          subcategory |-> signature.subcategory,
          confidence |-> AdjustConfidenceWithOtherAnalyses(signature.confidence,
                  velocity,
                                                           pattern, behavior),
          verified |-> signature.verified,
          impact |-> signature.impact]
    ELSE BuildClassificationFromAnalyses(velocity, pattern, behavior)

\* BotClassifier.groupIntoSessions: the entry lists by ip|user_agent key, in the
\* order in which the keys first occur
EntryLists(groups) == Listed([k \in 1..Len(groups) |-> groups[k].entries])
ClassifierSessions(logs) == EntryLists(GroupByKey(logs, <<>>))

\* classifySession: the analyzers run on the session, the behavior analyzer
\* sorts sessionLogs in place, and the signature is matched on its first entry
\* after that sort
SessionDetection(sessionLogs, ip, sorted, velocity, pattern, behavior, signature) ==
    [ip |-> ip,
     userAgent |-> OrUnknown(sessionLogs[1].ua),
     classification |-> CombineAnalysis(velocity, pattern, signature, behavior),
     requestCount |-> Len(sessionLogs),
     bandwidth |-> Sum([k \in 1..Len(sessionLogs) |-> sessionLogs[k].bytes]),
     timeRange |-> [start |-> sorted[1].ts, end |-> Last(sorted).ts],
     analysis |-> [velocity |-> velocity, pattern |-> pattern, behavior |-> behavior]]
\* velocityResults.find(v => v.ip === ip) || the default analysis
FindVelocity(ip, velocityResults) ==
    IF \E k \in 1..Len(velocityResults) : velocityResults[k].ip = ip
    THEN velocityResults[CHOOSE k \in 1..Len(velocityResults) :
                            /\ velocityResults[k].ip = ip
                            /\ \A j \in 1..(k - 1) : velocityResults[j].ip # ip]
    ELSE [ip |-> ip, requestsPerSecond |-> Rat(0, 1), requestsPerMinute |-> Rat(0, 1),
          burstScore |-> CalculateBurstScore(<<>>), isBot |-> FALSE,
          confidence |-> DoubleOf(0)]
ClassifyAnalyzed(sessionLogs, ip, sorted, velocity, pattern, behavior, registry, table, cache) ==
    With1(LAMBDA signature :
              SessionDetection(sessionLogs, ip, sorted, velocity, pattern, behavior,
                               signature),
          MatchSignature(registry, table, sorted[1].ua, sorted[1].ip, cache))
ClassifySorted(sessionLogs, ip, sorted, registry, table, cache) ==
    With3(LAMBDA velocity, pattern, behavior :
              ClassifyAnalyzed(sessionLogs, ip, sorted, velocity, pattern, behavior,
                               registry, table, cache),
          FindVelocity(ip, AnalyzeVelocity(sessionLogs)),
          AnalyzePattern(sessionLogs),
          AnalyzeBehavior(sessionLogs)[1])
ClassifySession(sessionLogs, registry, table, cache) ==
    With2(LAMBDA logs, sorted :
              ClassifySorted(logs, OrUnknown(logs[1].ip), sorted, registry, table, cache),
          sessionLogs, SortByTs(sessionLogs))

\* results.sort((a, b) => b.bandwidth - a.bandwidth): stable, descending
RECURSIVE InsertByBandwidth(_, _)
InsertByBandwidth(sorted, r) ==
    IF sorted = <<>> THEN <<r>>
    ELSE IF Last(sorted).bandwidth >= r.bandwidth THEN Append(sorted, r)
    ELSE Append(InsertByBandwidth(SubSeq(sorted, 1, Len(sorted) - 1), r), Last(sorted))

RECURSIVE SortByBandwidth(_)
SortByBandwidth(rs) ==
    IF rs = <<>> THEN <<>>
    ELSE InsertByBandwidth(SortByBandwidth(SubSeq(rs, 1, Len(rs) - 1)), Last(rs))

\* aggregateResults; the sort for topOffenders sorts results, and so bots, in place
Totals(rs) ==
    [requests |-> Sum([k \in 1..Len(rs) |-> rs[k].requestCount]),
     bandwidth |-> Sum([k \in 1..Len(rs) |-> rs[k].bandwidth])]
\* bot.classification.subcategory || bot.classification.category
CategoryOf(r) ==
    IF r.classification.subcategory # "" THEN r.classification.subcategory
    ELSE r.classification.category
Aggregated(results, allLogs, botRequests, sortedLogs, sortedResults) ==
    [summary |-> [totalRequests |-> Len(allLogs),
                  botRequests |-> botRequests,
                  humanRequests |-> Len(allLogs) - botRequests,
                  totalBandwidth |-> Sum([k \in 1..Len(allLogs) |-> allLogs[k].bytes]),
                  timeRange |-> [start |-> sortedLogs[1].ts,
                          end |-> Last(sortedLogs).ts]],
     bots |-> sortedResults,
     aggregations |->
         [byCategory |->
              [c \in {CategoryOf(results[k]) : k \in 1..Len(results)} |->
                  Totals(SelectSeq(results, LAMBDA r : CategoryOf(r) = c))],
          byImpact |->
              [i \in {results[k].classification.impact : k \in 1..Len(results)} |->
                  Totals(SelectSeq(results, LAMBDA r : r.classification.impact = i))],
          topOffenders |->
              SubSeq(sortedResults, 1,
                     IF Len(sortedResults) < 10 THEN Len(sortedResults) ELSE 10)]]
AggregateSorted(results, allLogs, sortedLogs, sortedResults) ==
    Aggregated(results, allLogs, Totals(results).requests, sortedLogs, sortedResults)
AggregateOf(results, allLogs) ==
    With2(LAMBDA sortedLogs, sortedResults :
              AggregateSorted(results, allLogs, sortedLogs, sortedResults),
          SortByTs(allLogs), SortByBandwidth(results))
AggregateResults(results, allLogs) == With2(AggregateOf, results, allLogs)

\* createEmptyAnalysis at wall-clock time now
CreateEmptyAnalysis(now) ==
    [summary |-> [totalRequests |-> 0, botRequests |-> 0, humanRequests |-> 0,
                  totalBandwidth |-> 0, timeRange |-> [start |-> now, end |-> now]],
     bots |-> <<>>,
     aggregations |-> [byCategory |-> <<>>, byImpact |-> <<>>, topOffenders |-> <<>>]]

\* the detection of every session, before the confidence filter
ClassifyEach(ss, registry, table, cache) ==
    Map(LAMBDA sessionLogs : ClassifySession(sessionLogs, registry, table, cache), ss)
ClassifySessions(normalizedLogs, registry, table, cache) ==
    With1(LAMBDA ss : ClassifyEach(ss, registry, table, cache),
          ClassifierSessions(normalizedLogs))

\* the results with no filter
BotResultsKeepsAll(results) == SelectSeq(results, LAMBDA r : TRUE)

\* results.filter(r => r.classification.confidence > 0.3)
BotResults(results) ==
    SelectSeq(results, LAMBDA r : ConfidenceAbove(r.classification.confidence, 300))

\* classify, with its results before the confidence filter kept beside the
\* analysis it returns
TracedAnalysis(normalizedLogs, results) ==
    [analysis |-> AggregateResults(BotResults(results), normalizedLogs),
     results |-> results]
ClassifyTraced(normalizedLogs, registry, table, cache, now) ==
    IF normalizedLogs = <<>>
    THEN [analysis |-> CreateEmptyAnalysis(now), results |-> <<>>]
    ELSE With2(TracedAnalysis, normalizedLogs,
               ClassifySessions(normalizedLogs, registry, table, cache))

\* classify
Classify(normalizedLogs, registry, table, cache, now) ==
    ClassifyTraced(normalizedLogs, registry, table, cache, now).analysis

\* classifySession rejects: analyzePattern throws while the array handed to the
\* inner Promise.all is built, before matchSignature is called
ClassifySessionThrows(sessionLogs) == AnalyzePatternThrows(sessionLogs)

\* classify rejects: its Promise.all rejects as soon as one classifySession does
SomeSessionThrows(ss) == \E k \in 1..Len(ss) : ClassifySessionThrows(ss[k])
ClassifyRejects(normalizedLogs) ==
    With1(SomeSessionThrows, ClassifierSessions(normalizedLogs))

\* the parse cache after the matchSignature calls of classify, which the sessions
\* whose classifySession threw did not reach
CacheAfterFirst(first, registry, cache) ==
    CacheAfterMatch(registry, first.ua, first.ip, cache)
CacheAfterSession(sessionLogs, registry, cache) ==
    IF ClassifySessionThrows(sessionLogs) THEN cache
    ELSE With1(LAMBDA first : CacheAfterFirst(first, registry, cache),
               SortByTs(sessionLogs)[1])
CacheAfterSessions(ss, registry, cache) ==
    Loop(LAMBDA c, sessionLogs : CacheAfterSession(sessionLogs, registry, c), cache, ss)

(***************************************************************************)
(* Processing pipeline: the semaphore and the joins of processLogsStreaming *)
(***************************************************************************)

\* new Semaphore(permits); capacity remembers the size it was built with
Semaphore(permits) == [capacity |-> permits, permits |-> permits, waitQueue |-> <<>>]

\* an acquire that never waits
AcquireAlways(sem, c) ==
    [sem |-> [sem EXCEPT !.permits = sem.permits - 1], granted |-> TRUE]

\* Semaphore.acquire by chunk c: a free permit is taken at once, else c queues
Acquire(sem, c) ==
    IF sem.permits > 0
    THEN [sem |-> [sem EXCEPT !.permits = sem.permits - 1], granted |-> TRUE]
    ELSE [sem |-> [sem EXCEPT !.waitQueue = Append(sem.waitQueue, c)], granted |-> FALSE]

\* mutant: the release function serves the waiter that came last
ReleaseServesLast(sem) ==
    IF sem.waitQueue = <<>>
    THEN [sem |-> [sem EXCEPT !.permits = sem.permits + 1], granted |-> 0]
    ELSE [sem |-> [sem EXCEPT !.waitQueue = SubSeq(sem.waitQueue, 1,
                                                   Len(sem.waitQueue) - 1)],
          granted |-> sem.waitQueue[Len(sem.waitQueue)]]

\* the release function: the permit goes back and the head of the queue, if any,
\* takes it in the same step; granted is that waiter, or 0
Release(sem) ==
    IF sem.waitQueue = <<>>
    THEN [sem |-> [sem EXCEPT !.permits = sem.permits + 1], granted |-> 0]
    ELSE [sem |-> [sem EXCEPT !.waitQueue = Tail(sem.waitQueue)],
          granted |-> Head(sem.waitQueue)]

\* logNormalizer.normalizeBatch: one detection entry per log of the chunk, in
\* order, not marked as a bot, carrying the id of its gap-split session in the chunk
SessionIdOf(ss, e) ==
    ss[CHOOSE i \in 1..Len(ss) :
          \E j \in 1..Len(ss[i].entries) : ss[i].entries[j].id = e.id].sessionId

NormalizedRow(ss, log) ==
    [id |-> log.id, ts |-> log.ts, ip |-> log.ip, ua |-> log.ua, path |-> log.path,
     referer |-> log.referer, rt |-> log.rt, bytes |-> log.bytes,
     sessionId |-> SessionIdOf(ss, log),
     is_bot |-> FALSE, bot_name |-> "", bot_category |-> ""]

NormalizedRows(chunk, ss) == Listed([k \in 1..Len(chunk) |-> NormalizedRow(ss, chunk[k])])

NormalizeBatch(chunk) == With2(NormalizedRows, chunk, GroupIntoSessions(chunk))

TimeWindowHours == 48

\* filterRecentLogs at wall-clock time now
FilterRecentLogs(logs, now) ==
    SelectSeq(logs, LAMBDA log : log.ts >= now - TimeWindowHours * 3600000)

\* annotateLogs: a later detection of a session id replaces an earlier one
DetectionsOfSession(detections, sessionId) ==
    {k \in 1..Len(detections) : detections[k].analysis.behavior.sessionId = sessionId}

MarkedAsBot(log, detection) ==
    [log EXCEPT !.is_bot = TRUE,
                !.bot_name = detection.classification.botName,
                !.bot_category =
                    IF detection.classification.subcategory # ""
                    THEN detection.classification.subcategory
                    ELSE detection.classification.category]

AnnotatedLog(log, detections, known) ==
    IF known = {} THEN log
    ELSE MarkedAsBot(log, detections[CHOOSE k \in known : \A j \in known : j <= k])

AnnotateLogs(logs, detections) ==
    IF logs = <<>> \/ detections = <<>> THEN logs
    ELSE Listed([k \in 1..Len(logs) |->
                    AnnotatedLog(logs[k], detections,
                                 DetectionsOfSession(detections, logs[k].sessionId))])

\* undefined: a value that is no array, not even the empty one
Undefined == [k \in {0} |-> "undefined"]

\* createEmptyResult at wall-clock time now; it has no logs
CreateEmptyResult(now) ==
    [analysis |-> [summary |-> [totalRequests |-> 0, botRequests |-> 0,
                                humanRequests |-> 0, totalBandwidth |-> 0,
                                timeRange |-> [start |-> now, end |-> now]],
                   bots |-> <<>>,
                   aggregations |-> [byCategory |-> <<>>, byImpact |-> <<>>,
                                     topOffenders |-> <<>>]],
     logs |-> Undefined,
     results |-> <<>>]

\* processRecentLogs of a list shorter than one chunk: the filter, one
\* normalizeBatch, the classifier once, and the annotation; results are the
\* classifier's results before its confidence filter
StreamingResult(detectionEntries, classified) ==
    [analysis |-> classified.analysis,
     logs |-> AnnotateLogs(detectionEntries, classified.analysis.bots),
     results |-> classified.results]

ProcessLogsStreaming(detectionEntries, now, registry, table, cache) ==
    With2(StreamingResult, detectionEntries,
          ClassifyTraced(detectionEntries, registry, table, cache, now))

\* the call rejected with the error its classify threw; it has no results
Rejection == [rejected |-> TRUE, results |-> <<>>]

ProcessNormalized(detectionEntries, now, registry, table, cache) ==
    IF ClassifyRejects(detectionEntries) THEN Rejection
    ELSE ProcessLogsStreaming(detectionEntries, now, registry, table, cache)

ProcessFiltered(recent, now, registry, table, cache) ==
    IF recent = <<>> THEN CreateEmptyResult(now)
    ELSE With1(LAMBDA detectionEntries :
                   ProcessNormalized(detectionEntries, now, registry, table, cache),
               NormalizeBatch(recent))

ProcessRecentLogs(logs, now, registry, table, cache) ==
    With1(LAMBDA recent : ProcessFiltered(recent, now, registry, table, cache),
          FilterRecentLogs(logs, now))

\* CoreDetectionEngine.analyze without cost analysis: botAnalysis and
\* normalizedLogs, or the rejection of processRecentLogs
Analyze(result) ==
    IF result = Rejection THEN [rejected |-> TRUE]
    ELSE [botAnalysis |-> result.analysis, normalizedLogs |-> result.logs]

\* the filter of analyzeTimeRange and of processTimeRange
InTimeRange(logs, startTime, endTime) ==
    SelectSeq(logs, LAMBDA log : log.ts >= startTime /\ log.ts <= endTime)

\* analyzeTimeRange: the window filter, then analyze on what it kept
AnalyzeTimeRange(logs, startTime, endTime, now, registry, table, cache) ==
    Analyze(ProcessRecentLogs(InTimeRange(logs, startTime, endTime), now, registry,
                              table, cache))

\* logs.slice(i, i + chunkSize)
Slice(logs, i, size) ==
    IF i >= Len(logs) THEN <<>>
    ELSE SubSeq(logs, i + 1, IF i + size > Len(logs) THEN Len(logs) ELSE i + size)

\* the values of the promises in the order in which they settled
PromiseAllInCompletionOrder(promises, chunkList, order) ==
    LET settled == SelectSeq(order, LAMBDA c : c \in Range(promises))
    IN  Flatten([k \in 1..Len(settled) |-> chunkList[settled[k]].result])

\* Promise.all followed by the loop that pushes each result: the values come in
\* the order of the promises, whatever the order in which they settled
PromiseAll(promises, chunkList, order) ==
    Flatten([k \in 1..Len(promises) |-> chunkList[promises[k]].result])

\* a join that resumes as soon as one promise has settled
SettledAny(promises, chunkList) ==
    \E k \in 1..Len(promises) : chunkList[promises[k]].state = "done"

\* Promise.all resolves when every promise has resolved
Settled(promises, chunkList) ==
    \A k \in 1..Len(promises) : chunkList[promises[k]].state = "done"

\* Promise.all rejects as soon as one promise has rejected
Rejected(promises, chunkList) ==
    \E k \in 1..Len(promises) : chunkList[promises[k]].state = "failed"

(***************************************************************************)
(* Specifications                                                          *)
(***************************************************************************)
EmptyCache == [c \in {} |-> Null]

IdleGroup ==
    /\ entries = <<>>
    /\ sessions = <<>>
    /\ sessionConfig = [maxGapMinutes |-> 30, maxDurationHours |-> 8]
    /\ gpc = "idle"
    /\ input = <<>>

IdleCidr ==
    /\ ipRangeCache = EmptyCache
    /\ checkIp = <<>>
    /\ checkCidrs = <<>>
    /\ checkResult = FALSE
    /\ cpc = "idle"

IdlePipe ==
    /\ recentLogs = <<>>
    /\ pconfig = [chunkSize |-> 5000, maxConcurrentChunks |-> 3]
    /\ ppc = "idle"
    /\ loopI = 0
    /\ chunks = <<>>
    /\ chunkPromises = <<>>
    /\ joined = <<>>
    /\ processingSemaphore = [capacity |-> 0, permits |-> 0, waitQueue |-> <<>>]
    /\ allDetectionEntries = <<>>
    /\ classifierInput = <<>>
    /\ classifyCalls = 0
    /\ finishOrder = <<>>
    /\ updates = 0
    /\ withConfigCalls = <<>>

IdleLoader ==
    /\ signatures = <<>>
    /\ loaded = FALSE
    /\ initialized = FALSE
    /\ aliased = FALSE
    /\ catalog = [readable |-> FALSE, records |-> <<>>]
    /\ lkind = <<>>
    /\ lpc = <<>>
    /\ concurrent = FALSE

\* no analyzeTimeRange call: no window
NoRange == [start |-> 0, end |-> 0]

IdleVelocity ==
    /\ velocityRequests = <<>>
    /\ velocityAnalyses = <<>>

IdleAnalyze ==
    /\ wallClock = 0
    /\ analyzeInput = <<>>
    /\ analyzeRange = NoRange
    /\ analyzeResults = <<>>
    /\ analyzeCalls = <<>>

\* a log entry; an absent string is empty and an absent number is 0
LogEntry(id, ip, ua, ts, path, referer, rt, bytes) ==
    [id |-> id, ts |-> ts, ip |-> ip, ua |-> ua, path |-> path, referer |-> referer,
     rt |-> rt, bytes |-> bytes]

IdleMatch ==
    /\ enhancedSignatures = <<>>
    /\ legacyTable = <<>>
    /\ matchUa = <<>>
    /\ matchIp = <<>>
    /\ matchResult = [matched |-> FALSE]
    /\ mpc = "idle"
    /\ adds = 0

GroupIps == {<<>>, <<"a">>}
GroupUas == {<<"b">>, <<"b", Bar, "c">>}
GroupTimes == {0, 60000, 1860000, 1860001}
GapChoices == {1, 30}
DurationChoices == {1, 8}

GroupEntry(i, ip, ua, ts) ==
    [id |-> i, ts |-> ts, ip |-> ip, ua |-> ua]

RECURSIVE NumberEntries(_, _)
NumberEntries(es, i) ==
    IF es = <<>> THEN <<>>
    ELSE <<[Head(es) EXCEPT !.id = i]>> \o NumberEntries(Tail(es), i + 1)

GroupInputs ==
    {NumberEntries(s, 1) :
        s \in SeqsUpTo({GroupEntry(0, ip, ua, ts) :
                            ip \in GroupIps, ua \in GroupUas, ts \in GroupTimes},
                       MaxEntries)}

InitGroup ==
    /\ IdleAnalyze
    /\ IdleVelocity
    /\ entries \in GroupInputs
    /\ sessions = <<>>
    /\ sessionConfig \in [maxGapMinutes : GapChoices, maxDurationHours : DurationChoices]
    /\ gpc = "ready"
    /\ input = entries
    /\ IdleCidr
    /\ IdleMatch
    /\ IdleLoader
    /\ IdlePipe

\* analyzeBehavior -> groupIntoSessions: sorts the caller's array in place
CallGroupIntoSessions ==
    /\ gpc = "ready"
    /\ entries' = SortByTs(entries)
    /\ sessions' = GroupIntoSessions(entries)
    /\ gpc' = "done"
    /\ UNCHANGED <<sessionConfig, input, outsideGroup>>

NextGroup == CallGroupIntoSessions

SpecGroup == InitGroup /\ [][NextGroup]_vars

SessionEntries == Flatten([i \in 1..Len(sessions) |-> sessions[i].entries])

\* C1: the gap-split sessions partition the input: every input entry is in
\* exactly one session and no session is empty.
C1_SessionsPartitionInput ==
    gpc = "done" =>
        /\ \A i \in 1..Len(sessions) : Len(sessions[i].entries) > 0
        /\ Len(SessionEntries) = Len(input)
        /\ \A k \in 1..Len(input) :
              Cardinality({j \in 1..Len(SessionEntries) : SessionEntries[j] = input[k]}) = 1

\* a three-entry input of one identity that the gap splits into two sessions
C1_Witness ==
    /\ gpc = "done"
    /\ Len(input) = 3
    /\ Len(sessions) = 2
    /\ sessions[1].ip = sessions[2].ip
    /\ sessions[1].userAgent = sessions[2].userAgent
    /\ sessions[2].sessionId # sessions[1].sessionId

\* C21: grouping entries into sessions has no side effect: after the call the
\* caller's list holds the same entries in the same order as before the call.
C21_GroupingLeavesInputUntouched == gpc = "done" => entries = input

(***************************************************************************)
(* SpecCidr: isIPInRanges over addresses and ranges                        *)
(***************************************************************************)
CidrAddresses ==
    {<<66, 249, 64, 50>>, <<66, 249, 96, 1>>, <<1, 2, 3, 4>>, <<0, 0, 0, 0>>,
     <<127, 255, 255, 255>>, <<128, 0, 0, 0>>, <<209, 85, 128, 1>>,
     <<255, 255, 255, 255>>}
CidrBases ==
    {<<66, 249, 64, 0>>, <<1, 2, 3, 4>>, <<0, 0, 0, 0>>, <<128, 0, 0, 0>>,
     <<209, 85, 128, 0>>, <<255, 255, 255, 255>>}
MaxPrefix == 32

InitCidr ==
    /\ IdleAnalyze
    /\ IdleVelocity
    /\ IdleGroup
    /\ IdleMatch
    /\ IdleLoader
    /\ IdlePipe
    /\ ipRangeCache = EmptyCache
    /\ \E o \in CidrAddresses : checkIp = IpString(o)
    /\ \E o \in CidrBases, p \in 0..MaxPrefix : checkCidrs = <<CidrString(o, p)>>
    /\ checkResult = FALSE
    /\ cpc = "ready"

CallIsIPInRanges ==
    /\ cpc = "ready"
    /\ cpc' = "done"
    /\ checkResult' = IsIPInRanges(checkIp, checkCidrs, ipRangeCache)
    /\ ipRangeCache' = CacheAfter(checkIp, checkCidrs, ipRangeCache)
    /\ UNCHANGED <<checkIp, checkCidrs, outsideCidr>>

NextCidr == CallIsIPInRanges

SpecCidr == InitCidr /\ [][NextCidr]_vars

\* bit j (0 the most significant) of the address whose octets are o
AddressBit(o, j) == (o[(j \div 8) + 1] \div Pow2(7 - (j % 8))) % 2

OctetsOf(ip) ==
    LET strs == Split(ip, ".") IN [i \in 1..4 |-> ParseInt(strs[i]).v]

\* the top p bits of the two addresses are equal
TopBitsEqual(a, b, p) == \A j \in 0..(p - 1) : AddressBit(a, j) = AddressBit(b, j)

CheckedCidrFields == Split(checkCidrs[1], "/")

\* C5: the IP-range check returns true if and only if the top p bits of the
\* address equal the top p bits of the range's base address.
C5_ExactContainment ==
    cpc = "done" =>
        (checkResult =
            TopBitsEqual(OctetsOf(checkIp), OctetsOf(CheckedCidrFields[1]),
                         ParseInt(CheckedCidrFields[2]).v))

(***************************************************************************)
(* SpecMatch: matchSignature over registries, user agents and addresses    *)
(***************************************************************************)
MaxAdds == 1

\* a catalog as the loader finds it on disk: two records without known ranges
\* around one with them
SampleCatalog ==
    <<[name |-> "Googlebot", category |-> "beneficial", subcategory |-> "search_engine",
       patterns |-> <<WordPattern(<<"G", "o", "o", "g", "l", "e", "b", "o", "t">>)>>,
               impact |-> "low"],
      [name |-> "AhrefsBot", category |-> "malicious", subcategory |-> "seo_tool",
       patterns |-> <<WordPattern(<<"A", "h", "r", "e", "f", "s", "B", "o", "t">>)>>,
               impact |-> "medium"],
      [name |-> "GPTBot", category |-> "extractive", subcategory |-> "ai_training",
       patterns |-> <<WordPattern(<<"G", "P", "T", "B", "o", "t">>)>>,
               impact |-> "extreme"]>>

CatalogSignatures == [i \in 1..Len(SampleCatalog) |-> SignatureOfRecord(SampleCatalog[i])]

LegacyTables ==
    {<<>>,
     <<[needle |-> <<"b", "o", "t">>, botName |-> "Generic Bot", category |-> "scraper",
        severity |-> "medium", confidence |-> 700]>>}

MatchUserAgents ==
    {<<>>,
     <<"G", "P", "T", "B", "o", "t", "/", "1", ".", "0">>,
     <<"G", "o", "o", "g", "l", "e", "b", "o", "t", "/", "2", ".", "1">>,
     <<"M", "o", "z", "i", "l", "l", "a", "/", "5", ".", "0", " ", "(", "c", "o",
         "m", "p", "a", "t", "i", "b", "l", "e", ";", " ", "G", "o", "o", "g", "l", "e",
         "b", "o", "t", "/", "2", ".", "1", ")">>,
     <<"c", "u", "r", "l", "/", "8", ".", "0", " ", "G", "P", "T", "B", "o", "t",
         "/", "1", ".", "0">>,
     <<"M", "o", "z", "i", "l", "l", "a", "/", "5", ".", "0", " ", "(", "c", "o",
         "m", "p", "a", "t", "i", "b", "l", "e", ";", " ", "G", "P", "T", "B", "o", "t",
         ")">>,
     <<"C", "C", "B", "o", "t", "/", "2", ".", "0", " ", "(", "c", "o", "m", "m",
         "o", "n", "c", "r", "a", "w", "l", ".", "o", "r", "g", ")">>,
     <<"M", "o", "z", "i", "l", "l", "a", "/", "5", ".", "0", " ", "(", "W", "i",
         "n", "d", "o", "w", "s", " ", "N", "T", " ", "1", "0", ".", "0", ")", " ", "C",
         "h", "r", "o", "m", "e", "/", "1", "2", "0", ".", "0">>,
     <<"G", "o", "o", "g", "l", "e", "b", "o", "t", "/", "2", ".", "1",
         " ", "G", "P", "T", "B", "o", "t", "/", "1", ".", "0">>,
     <<"A", "h", "r", "e", "f", "s", "B", "o", "t", "/", "7", ".", "0">>}

MatchAddresses ==
    {<<>>, <<":", ":", "1">>, <<"1", ".", "2", ".", "3">>,
     IpString(<<1, 2, 3, 4>>), IpString(<<20, 171, 5, 5>>), IpString(<<66, 249, 64,
             50>>),
     IpString(<<54, 36, 149, 7>>), IpString(<<209, 85, 128, 1>>)}

InitMatch ==
    /\ IdleAnalyze
    /\ IdleVelocity
    /\ IdleGroup
    /\ IdleLoader
    /\ IdlePipe
    /\ ipRangeCache = EmptyCache
    /\ checkIp = <<>> /\ checkCidrs = <<>> /\ checkResult = FALSE /\ cpc = "idle"
    /\ enhancedSignatures \in {FallbackSignatures, CatalogSignatures}
    /\ legacyTable \in LegacyTables
    /\ matchUa = <<>>
    /\ matchIp = <<>>
    /\ matchResult = NoMatch
    /\ mpc = "ready"
    /\ adds = 0

\* SignatureMatcher.addSignature
AddSignature ==
    /\ mpc = "ready"
    /\ adds < MaxAdds
    /\ \E i \in 1..Len(BuiltInSignatures) :
          enhancedSignatures' = MapSet(enhancedSignatures, BuiltInSignatures[i])
    /\ adds' = adds + 1
    /\ UNCHANGED <<legacyTable, matchUa, matchIp, matchResult, mpc, cidrVars, outsideMatch>>

\* SignatureMatcher.matchSignature on an entry with this user agent and address
CallMatchSignature ==
    /\ mpc = "ready"
    /\ \E ua \in MatchUserAgents, ip \in MatchAddresses :
          /\ matchUa' = ua
          /\ matchIp' = ip
          /\ matchResult' = MatchSignature(enhancedSignatures, legacyTable, ua, ip,
                  ipRangeCache)
          /\ ipRangeCache' = CacheAfterMatch(enhancedSignatures, ua, ip, ipRangeCache)
    /\ mpc' = "done"
    /\ UNCHANGED <<enhancedSignatures, legacyTable, adds, checkIp, checkCidrs,
                   checkResult, cpc, outsideMatch>>

NextMatch == AddSignature \/ CallMatchSignature

SpecMatch == InitMatch /\ [][NextMatch]_vars

\* the four octets of a well-formed dotted quad, as numbers
IsQuad(ip) ==
    LET strs == Split(ip, ".")
    IN  /\ Len(strs) = 4
        /\ \A i \in 1..4 : Len(strs[i]) > 0 /\ DigitRun(strs[i], 1) = Len(strs[i])
                            /\ ParseInt(strs[i]).v <= 255

\* the address lies in the range by the meaning of CIDR notation
LiesInCidr(ip, cidr) ==
    LET fields == Split(cidr, "/")
    IN  /\ IsQuad(ip)
        /\ TopBitsEqual(OctetsOf(ip), OctetsOf(fields[1]), ParseInt(fields[2]).v)

LiesInSomeCidr(ip, cidrs) == \E i \in 1..Len(cidrs) : LiesInCidr(ip, cidrs[i])

\* the signature the last matchSignature call selected
SelectedSignature == enhancedSignatures[FirstMatching(enhancedSignatures, matchUa)]

\* the case of C4: the selected signature declares ranges, the address is present
\* and in none of them
SpoofCase ==
    /\ mpc = "done"
    /\ FirstMatching(enhancedSignatures, matchUa) # 0
    /\ SelectedSignature.hasRanges
    /\ matchIp # <<>>
    /\ ~LiesInSomeCidr(matchIp, SelectedSignature.ipRanges)

SignatureSelected == mpc = "done" /\ FirstMatching(enhancedSignatures, matchUa) # 0

\* the confidence the call returned is what the heuristic adjustments make of
\* this base, in thousandths
AdjustedFrom(base) ==
    matchResult.confidence
        = ApplyAdditionalVerification(DoubleOf(base), SelectedSignature, matchUa)

\* C24 as the specification words it: 0.95 for a verified address, 0.30 for an
\* address that is present and in none of the declared ranges, 0.60 when the
\* signature has no ranges to check, and the base 0.75 otherwise.
C24_BaseConfidenceAsWorded ==
    SignatureSelected =>
        AdjustedFrom(IF matchResult.verified THEN 950
                     ELSE IF SelectedSignature.hasRanges /\ matchIp # <<>> THEN 300
                     ELSE IF ~SelectedSignature.hasRanges THEN 600
                     ELSE 750)

\* C24: before the heuristic adjustments, a User-Agent match gets confidence
\* 0.95 if the address is verified against a declared range, 0.30 if an address
\* is present but in none of the declared ranges, 0.60 if the signature declares
\* ranges and the entry carries no address to check, and the pattern-only base
\* 0.75 if the signature declares no ranges.
C24_BaseConfidenceByVerification ==
    SignatureSelected =>
        AdjustedFrom(IF matchResult.verified THEN 950
                     ELSE IF SelectedSignature.hasRanges /\ matchIp # <<>> THEN 300
                     ELSE IF SelectedSignature.hasRanges THEN 600
                     ELSE 750)

\* AhrefsBot/7.0 on the catalog registry, whose AhrefsBot signature declares no
\* ranges: the confidence is 0.75 with or without an address
C24_Witness ==
    /\ SignatureSelected
    /\ ~SelectedSignature.hasRanges
    /\ matchIp # <<>>
    /\ matchResult.botName = "AhrefsBot"
    /\ ~matchResult.verified
    /\ matchResult.confidence = DoubleOf(750)

\* the registered signatures one of whose patterns matches the user agent of the
\* last matchSignature call, by their place in the registry
MatchingSignatures ==
    {i \in 1..Len(enhancedSignatures) :
        \E j \in 1..Len(enhancedSignatures[i].patterns) :
            Test(enhancedSignatures[i].patterns[j], matchUa)}

\* the names of the registry, in its iteration order
NamesOf(registry) == [i \in 1..Len(registry) |-> registry[i].name]

\* addSignature puts a name not yet registered behind every registered one, and
\* leaves a name registered before, and every other, at its place
RegistrationKeepsOrder ==
    adds' = adds + 1 =>
        \/ NamesOf(enhancedSignatures') = NamesOf(enhancedSignatures)
        \/ \E i \in 1..Len(BuiltInSignatures) :
              /\ BuiltInSignatures[i].name \notin Range(NamesOf(enhancedSignatures))
              /\ NamesOf(enhancedSignatures')
                     = Append(NamesOf(enhancedSignatures), BuiltInSignatures[i].name)

\* what the call returned is the classification of the matching signature that
\* stands first, whatever the legacy table holds; the legacy detector's answer is
\* returned when no signature matches
FirstMatchWins ==
    mpc = "done" =>
        IF MatchingSignatures # {}
        THEN /\ matchResult.matched
             /\ \E i \in MatchingSignatures :
                   /\ \A j \in MatchingSignatures : i <= j
                   /\ matchResult.botName = enhancedSignatures[i].name
                   /\ matchResult.category = enhancedSignatures[i].category
                   /\ matchResult.subcategory = enhancedSignatures[i].subcategory
                   /\ matchResult.impact = enhancedSignatures[i].impact
                   /\ \A j \in MatchingSignatures \ {i} :
                          matchResult.botName # enhancedSignatures[j].name
        ELSE matchResult = IF LegacyDetect(legacyTable, matchUa).isBot
                           THEN ConvertBasicToClassification(LegacyDetect(legacyTable,
                                                                          matchUa))
                           ELSE NoMatch

\* C20: matchSignature returns the classification of the earliest-registered
\* signature one of whose patterns matches the User-Agent, the order being that
\* in which the names were registered; a later-registered signature that also
\* matches is never returned, and the legacy detector is consulted only when no
\* registered signature matches.
C20_FirstRegisteredMatchWins == [][RegistrationKeepsOrder]_vars /\ []FirstMatchWins

\* after a registration, a user agent naming Googlebot and GPTBot, which the
\* legacy table knows too: two signatures match and the first of them is returned
C20_Witness ==
    /\ mpc = "done"
    /\ adds = 1
    /\ matchUa = <<"G", "o", "o", "g", "l", "e", "b", "o", "t", "/", "2", ".", "1",
            " ", "G", "P", "T", "B", "o", "t", "/", "1", ".", "0">>
    /\ Cardinality(MatchingSignatures) = 2
    /\ LegacyDetect(legacyTable, matchUa).isBot
    /\ NamesOf(enhancedSignatures)[1] = "Googlebot"
    /\ matchResult.botName = "Googlebot"

(***************************************************************************)
(* SpecLoader: concurrent calls of SignatureLoader.loadSignatures and of   *)
(* SignatureMatcher.initialize.  A call runs up to its await of the file   *)
(* read, and all that follows the read runs in one step.                   *)
(***************************************************************************)
MaxCalls == 2

\* loadSignatures after the read: every record of the catalog is set in turn; a
\* record without a pattern list (sig.patterns.map) or with a pattern that is no
\* regular expression (new RegExp) throws and the catch adds the fallback
\* signatures to whatever is registered by then, leaving loaded false
WellFormed(rec) == rec.hasPatterns /\ rec.validPatterns

RECURSIVE LoadRecords(_, _)
LoadRecords(registry, records) ==
    IF records = <<>> THEN [signatures |-> registry, loaded |-> TRUE]
    ELSE IF ~WellFormed(Head(records))
    THEN [signatures |-> MapSetAll(registry, FallbackSignatures), loaded |-> FALSE]
    ELSE LoadRecords(MapSet(registry, SignatureOfRecord(Head(records))), Tail(records))

\* the part of loadSignatures that follows the await of fs.readFile
AfterRead(registry, file) ==
    IF file.readable THEN LoadRecords(registry, file.records)
    ELSE [signatures |-> MapSetAll(registry, FallbackSignatures), loaded |-> FALSE]

CatalogRecord(name, category, subcategory, text, impact) ==
    [name |-> name, category |-> category, subcategory |-> subcategory,
     patterns |-> <<WordPattern(text)>>, impact |-> impact, hasPatterns |-> TRUE,
     validPatterns |-> TRUE]

\* the file as the loader may find it: missing, empty, well formed, with a name
\* that occurs twice, with a record that has no pattern list, and with a record
\* whose pattern is not a valid regular expression
CatalogFiles ==
    LET googlebot == CatalogRecord("Googlebot", "beneficial", "search_engine", <<"G",
            "o", "o", "g", "l", "e", "b", "o", "t">>, "low")
        ahrefs == CatalogRecord("AhrefsBot", "malicious", "seo_tool", <<"A", "h", "r",
                "e", "f", "s", "B", "o", "t">>, "medium")
        gptbot == CatalogRecord("GPTBot", "extractive", "ai_training", <<"G", "P", "T",
                "B", "o", "t">>, "extreme")
        image == CatalogRecord("Googlebot", "beneficial", "search_engine", <<"G", "o",
                "o", "g", "l", "e", "b", "o", "t", "-", "I", "m", "a", "g", "e">>,
                "low")
    IN  {[readable |-> FALSE, records |-> <<>>],
         [readable |-> TRUE, records |-> <<>>],
         [readable |-> TRUE, records |-> <<googlebot, ahrefs, gptbot>>],
         [readable |-> TRUE, records |-> <<googlebot, ahrefs, image>>],
         [readable |-> TRUE,
          records |-> <<ahrefs, [gptbot EXCEPT !.hasPatterns = FALSE], googlebot>>],
         [readable |-> TRUE,
          records |-> <<[googlebot EXCEPT !.validPatterns = FALSE], ahrefs>>]}

Calls == 1..MaxCalls

InitLoader ==
    /\ IdleAnalyze
    /\ IdleVelocity
    /\ IdleGroup
    /\ IdleCidr
    /\ IdlePipe
    /\ legacyTable = <<>> /\ matchUa = <<>> /\ matchIp = <<>>
    /\ matchResult = NoMatch /\ mpc = "idle" /\ adds = 0
    /\ enhancedSignatures = <<>>
    /\ signatures = <<>>
    /\ loaded = FALSE
    /\ initialized = FALSE
    /\ aliased = FALSE
    /\ catalog \in CatalogFiles
    /\ lkind \in [Calls -> {"loadSignatures", "initialize"}]
    /\ lpc = [c \in Calls |-> "start"]
    /\ concurrent = FALSE

LoaderUnchanged == UNCHANGED <<catalog, lkind, legacyTable, matchUa, matchIp, matchResult,
                               mpc, adds, outsideLoader>>

\* the synchronous head of a call: initialize returns at once when initialized;
\* loadSignatures returns the registry at once when loaded, else starts the read
StartCall(c) ==
    /\ lpc[c] = "start"
    /\ lpc' = [lpc EXCEPT ![c] =
                  IF lkind[c] = "initialize" /\ initialized THEN "done"
                  ELSE IF loaded THEN (IF lkind[c] = "initialize" THEN "resolved" ELSE "done")
                  ELSE "reading"]
    /\ concurrent' = (concurrent \/ \A d \in Calls : lpc'[d] \in {"reading", "resolved"})
    /\ UNCHANGED <<signatures, loaded, initialized, aliased, enhancedSignatures>>
    /\ LoaderUnchanged

\* the read settles and loadSignatures runs to its return
FinishRead(c) ==
    /\ lpc[c] = "reading"
    /\ signatures' = AfterRead(signatures, catalog).signatures
    /\ loaded' = (loaded \/ AfterRead(signatures, catalog).loaded)
    /\ enhancedSignatures' = IF aliased THEN signatures' ELSE enhancedSignatures
    /\ lpc' = [lpc EXCEPT ![c] = IF lkind[c] = "initialize" THEN "resolved" ELSE "done"]
    /\ UNCHANGED <<initialized, aliased, concurrent>>
    /\ LoaderUnchanged

\* initialize after its await: the matcher takes the loader's Map itself
FinishInitialize(c) ==
    /\ lpc[c] = "resolved"
    /\ enhancedSignatures' = signatures
    /\ aliased' = TRUE
    /\ initialized' = TRUE
    /\ lpc' = [lpc EXCEPT ![c] = "done"]
    /\ UNCHANGED <<signatures, loaded, concurrent>>
    /\ LoaderUnchanged

NextLoader == \E c \in Calls : StartCall(c) \/ FinishRead(c) \/ FinishInitialize(c)

SpecLoader == InitLoader /\ [][NextLoader]_vars

\* C10: with the loader called twice concurrently, at any interleaving, a call that
\* has not completed can always take its next step, no signature name is registered
\* more than once, and once the calls have completed the registry has the size a
\* single call leaves.
C10_ConcurrentLoadIdempotent ==
    /\ \A c \in Calls :
          lpc[c] # "done" => ENABLED (StartCall(c) \/ FinishRead(c) \/ FinishInitialize(c))
    /\ \A i, j \in 1..Len(signatures) : signatures[i].name = signatures[j].name => i = j
    /\ (\A c \in Calls : lpc[c] = "done") =>
            Len(signatures) = Len(AfterRead(<<>>, catalog).signatures)

\* both calls were suspended at their reads together, both have completed, and the
\* catalog named one signature twice
C10_Witness ==
    /\ \A c \in Calls : lpc[c] = "done"
    /\ Len(catalog.records) = 3
    /\ catalog.records[1].name = catalog.records[3].name
    /\ Len(signatures) = 2
    /\ loaded
    /\ concurrent

\* record i of the catalog is the last well-formed record of its name
LastOfItsName(i) ==
    /\ WellFormed(catalog.records[i])
    /\ \A j \in (i + 1)..Len(catalog.records) :
           WellFormed(catalog.records[j]) =>
               catalog.records[j].name # catalog.records[i].name

\* C14: if one record of the signature catalog is malformed (for example a
\* pattern that is not a valid regular expression), only that signature is
\* skipped: every well-formed record of the catalog is still registered.
C14_OnlyMalformedRecordSkipped ==
    (\A c \in Calls : lpc[c] = "done") =>
        \A i \in 1..Len(catalog.records) :
            LastOfItsName(i) =>
                \E j \in 1..Len(signatures) :
                    signatures[j] = SignatureOfRecord(catalog.records[i])

(***************************************************************************)
(* SpecPipe: one run of DetectionPipeline.processRecentLogs from the       *)
(* filtered list on, with the chunk tasks it starts and updateConfig calls *)
(* made on the pipeline while the run is suspended.  The steps of the run  *)
(* that lie between two awaits follow one another with nothing in between: *)
(* chunk tasks and updateConfig act only while the run is suspended.       *)
(***************************************************************************)
MaxLogs == 4
MaxChunkSize == 2
MaxConcurrent == 3
MaxUpdates == 1

ChunkSizes == 1..MaxChunkSize
ConcurrentChoices == 1..MaxConcurrent

\* the k-th log of a run: one client, one request a second
PipeLog(k) == LogEntry(k, <<"a">>, <<"b">>, 1000 * k, <<"/">>, <<>>, 0, 0)

InitPipe ==
    /\ IdleAnalyze
    /\ IdleVelocity
    /\ IdleGroup
    /\ IdleCidr
    /\ IdleMatch
    /\ IdleLoader
    /\ recentLogs \in {[k \in 1..n |-> PipeLog(k)] : n \in 0..MaxLogs}
    /\ pconfig \in [chunkSize : ChunkSizes, maxConcurrentChunks : ConcurrentChoices]
    /\ ppc = "start"
    /\ loopI = 0
    /\ chunks = <<>>
    /\ chunkPromises = <<>>
    /\ joined = <<>>
    /\ processingSemaphore = Semaphore(0)
    /\ allDetectionEntries = <<>>
    /\ classifierInput = <<>>
    /\ classifyCalls = 0
    /\ finishOrder = <<>>
    /\ updates = 0
    /\ withConfigCalls = <<>>

Suspended == ppc \in {"join", "finalJoin", "classifying", "done", "failed"}

\* botClassifier.classify(allDetectionEntries) is called with the list as it is
InvokeClassifier(list) ==
    /\ classifierInput' = list
    /\ classifyCalls' = classifyCalls + 1
    /\ ppc' = "classifying"

\* processRecentLogs: an empty filtered list returns the empty result, else
\* processLogsStreaming builds its semaphore from the configuration of the moment
StartRun ==
    /\ ppc = "start"
    /\ IF recentLogs = <<>>
       THEN ppc' = "done" /\ processingSemaphore' = processingSemaphore
       ELSE ppc' = "loop" /\ processingSemaphore' = Semaphore(pconfig.maxConcurrentChunks)
    /\ UNCHANGED <<recentLogs, pconfig, loopI, chunks, chunkPromises, joined,
                   allDetectionEntries, classifierInput, classifyCalls, finishOrder,
                   updates, withConfigCalls, outsidePipe>>

\* one pass of the for loop up to the batch check: slice, acquire, push, and either
\* the await of the first maxConcurrentChunks promises or the increment of i
LoopIteration ==
    /\ ppc = "loop"
    /\ loopI < Len(recentLogs)
    /\ LET Pass(c, acquired) ==
              /\ processingSemaphore' = acquired.sem
              /\ chunks' = Append(chunks,
                              [logs |-> Slice(recentLogs, loopI, pconfig.chunkSize),
                               state |-> IF acquired.granted THEN "acquired" ELSE "waiting",
                               result |-> <<>>])
              /\ IF Len(chunkPromises) + 1 >= pconfig.maxConcurrentChunks
                 THEN /\ joined' = SubSeq(Append(chunkPromises, c), 1,
                                          pconfig.maxConcurrentChunks)
                      /\ chunkPromises' = SubSeq(Append(chunkPromises, c),
                                                 pconfig.maxConcurrentChunks + 1,
                                                 Len(chunkPromises) + 1)
                      /\ ppc' = "join"
                      /\ loopI' = loopI
                 ELSE /\ chunkPromises' = Append(chunkPromises, c)
                      /\ loopI' = loopI + pconfig.chunkSize
                      /\ UNCHANGED <<joined, ppc>>
       IN  Pass(Len(chunks) + 1, Acquire(processingSemaphore, Len(chunks) + 1))
    /\ UNCHANGED <<recentLogs, pconfig, allDetectionEntries, classifierInput,
                   classifyCalls, finishOrder, updates, withConfigCalls, outsidePipe>>

\* the batch has resolved: its results are pushed in order and the loop goes on
ResumeJoin ==
    /\ ppc = "join"
    /\ Settled(joined, chunks)
    /\ allDetectionEntries' = allDetectionEntries \o PromiseAll(joined, chunks, finishOrder)
    /\ loopI' = loopI + pconfig.chunkSize
    /\ ppc' = "loop"
    /\ joined' = <<>>
    /\ UNCHANGED <<recentLogs, pconfig, chunks, chunkPromises, processingSemaphore,
                   classifierInput, classifyCalls, finishOrder, updates, withConfigCalls,
                   outsidePipe>>

\* the loop is over: the remaining promises are awaited, or, with none left, the
\* classifier is called
LoopExit ==
    /\ ppc = "loop"
    /\ loopI >= Len(recentLogs)
    /\ IF chunkPromises # <<>>
       THEN /\ joined' = chunkPromises
            /\ ppc' = "finalJoin"
            /\ UNCHANGED <<classifierInput, classifyCalls>>
       ELSE /\ InvokeClassifier(allDetectionEntries)
            /\ joined' = joined
    /\ UNCHANGED <<recentLogs, pconfig, loopI, chunks, chunkPromises, processingSemaphore,
                   allDetectionEntries, finishOrder, updates, withConfigCalls, outsidePipe>>

\* the remaining promises have resolved: their results are pushed and the
\* classifier is called
ResumeFinalJoin ==
    /\ ppc = "finalJoin"
    /\ Settled(joined, chunks)
    /\ allDetectionEntries' = allDetectionEntries \o PromiseAll(joined, chunks, finishOrder)
    /\ InvokeClassifier(allDetectionEntries')
    /\ joined' = <<>>
    /\ UNCHANGED <<recentLogs, pconfig, loopI, chunks, chunkPromises, processingSemaphore,
                   finishOrder, updates, withConfigCalls, outsidePipe>>

\* a promise of the awaited batch has rejected: the run rejects with it
RejectJoin ==
    /\ ppc \in {"join", "finalJoin"}
    /\ Rejected(joined, chunks)
    /\ ppc' = "failed"
    /\ UNCHANGED <<recentLogs, pconfig, loopI, chunks, chunkPromises, joined,
                   processingSemaphore, allDetectionEntries, classifierInput, classifyCalls,
                   finishOrder, updates, withConfigCalls, outsidePipe>>

\* the classifier has returned and the run returns its result
ClassifyReturns ==
    /\ ppc = "classifying"
    /\ ppc' = "done"
    /\ UNCHANGED <<recentLogs, pconfig, loopI, chunks, chunkPromises, joined,
                   processingSemaphore, allDetectionEntries, classifierInput, classifyCalls,
                   finishOrder, updates, withConfigCalls, outsidePipe>>

ChunkUnchanged == UNCHANGED <<recentLogs, pconfig, ppc, loopI, chunkPromises, joined,
                              allDetectionEntries, classifierInput, classifyCalls,
                              updates, withConfigCalls, outsidePipe>>

\* the task of chunk c starts with its permit: over the memory ceiling it pauses,
\* else it calls normalizeBatch
ChunkBegin(c) ==
    /\ Suspended
    /\ chunks[c].state = "acquired"
    /\ \E overCeiling \in BOOLEAN :
          chunks' = [chunks EXCEPT ![c].state = IF overCeiling THEN "pausing" ELSE "running"]
    /\ UNCHANGED <<processingSemaphore, finishOrder>>
    /\ ChunkUnchanged

\* the pause is over and normalizeBatch is called
ChunkAfterPause(c) ==
    /\ Suspended
    /\ chunks[c].state = "pausing"
    /\ chunks' = [chunks EXCEPT ![c].state = "running"]
    /\ UNCHANGED <<processingSemaphore, finishOrder>>
    /\ ChunkUnchanged

\* normalizeBatch settles, with the normalized chunk or by throwing, and the
\* finally block releases the permit, which the first waiter takes
ChunkSettle(c) ==
    /\ Suspended
    /\ chunks[c].state = "running"
    /\ \E throws \in BOOLEAN :
          LET Settle(released) ==
                 /\ processingSemaphore' = released.sem
                 /\ chunks' = [k \in 1..Len(chunks) |->
                                 IF k = c
                                 THEN [chunks[k] EXCEPT
                                          !.state = IF throws THEN "failed" ELSE "done",
                                          !.result = IF throws THEN <<>>
                                                     ELSE NormalizeBatch(chunks[k].logs)]
                                 ELSE IF k = released.granted
                                 THEN [chunks[k] EXCEPT !.state = "acquired"]
                                 ELSE chunks[k]]
          IN  Settle(Release(processingSemaphore))
    /\ finishOrder' = Append(finishOrder, c)
    /\ ChunkUnchanged

\* DetectionPipeline.updateConfig, called by someone else while the run is suspended
UpdateConfig ==
    /\ Suspended
    /\ updates < MaxUpdates
    /\ \E size \in ChunkSizes, conc \in ConcurrentChoices :
          /\ [chunkSize |-> size, maxConcurrentChunks |-> conc] # pconfig
          /\ pconfig' = [chunkSize |-> size, maxConcurrentChunks |-> conc]
    /\ updates' = updates + 1
    /\ UNCHANGED <<recentLogs, ppc, loopI, chunks, chunkPromises, joined,
                   processingSemaphore, allDetectionEntries, classifierInput, classifyCalls,
                   finishOrder, withConfigCalls, outsidePipe>>

RunStep ==
    \/ StartRun
    \/ LoopIteration
    \/ ResumeJoin
    \/ LoopExit
    \/ ResumeFinalJoin
    \/ RejectJoin
    \/ ClassifyReturns

ChunkStep ==
    \/ \E c \in 1..Len(chunks) : ChunkBegin(c)
    \/ \E c \in 1..Len(chunks) : ChunkAfterPause(c)
    \/ \E c \in 1..Len(chunks) : ChunkSettle(c)

NextPipe == RunStep \/ ChunkStep \/ UpdateConfig

SpecPipe == InitPipe /\ [][NextPipe]_vars

\* the outputs of all chunks created so far, in chunk-index order
ChunkOutputs == Flatten([c \in 1..Len(chunks) |-> chunks[c].result])

\* C7: whatever the order in which the chunk normalizations complete, the list
\* the classifier is called with is the concatenation of the normalized outputs
\* of the chunks in chunk-index order.
C7_ClassifierInputInChunkOrder ==
    classifyCalls > 0 =>
        classifierInput = Flatten([c \in 1..Len(chunks) |-> NormalizeBatch(chunks[c].logs)])

\* the classifier was called after a later chunk had completed before an earlier one
C7_Witness ==
    /\ classifyCalls = 1
    /\ Len(chunks) >= 2
    /\ \E a, b \in 1..Len(finishOrder) : a < b /\ finishOrder[a] > finishOrder[b]
    /\ classifierInput = ChunkOutputs

\* chunks whose normalizeBatch call has started and has not settled
RunningChunks == {c \in 1..Len(chunks) : chunks[c].state = "running"}

\* C8: at every moment of a run, the number of chunks whose normalization has
\* started and not yet finished is at most the maxConcurrentChunks the run's
\* semaphore was sized with.
C8_RunningChunksBounded ==
    ppc # "start" => Cardinality(RunningChunks) <= processingSemaphore.capacity

\* as many chunks are being normalized as the semaphore allows while another
\* chunk waits in its queue
C8_Witness ==
    /\ Cardinality(RunningChunks) = processingSemaphore.capacity
    /\ processingSemaphore.waitQueue # <<>>
    /\ processingSemaphore.permits = 0

ChunkedLogs == Flatten([c \in 1..Len(chunks) |-> chunks[c].logs])

\* the for loop of the run has ended
LoopOver ==
    \/ ppc \in {"finalJoin", "classifying"}
    \/ ppc = "done" /\ recentLogs # <<>>
    \/ ppc = "loop" /\ loopI >= Len(recentLogs)

\* C25: in every run each entry that passed the recency filter is handed to
\* normalization in exactly one chunk, and the chunks cover the filtered list
\* contiguously and in order, also when updateConfig or processWithConfig
\* changes chunkSize while the run is suspended at a batch join.
C25_ChunksCoverTheFilteredList ==
    /\ Len(ChunkedLogs) <= Len(recentLogs)
    /\ ChunkedLogs = SubSeq(recentLogs, 1, Len(ChunkedLogs))
    /\ LoopOver => ChunkedLogs = recentLogs

\* The event loop runs every callback that is ready: the run goes on when the
\* promises it awaits have settled, and the task of a chunk goes on when it has
\* its permit, when its pause is over and when normalizeBatch settles.
SpecPipeFair == SpecPipe /\ WF_vars(RunStep) /\ WF_vars(ChunkStep)

\* chunk c waits in the queue of the semaphore
Waiting(c) == c <= Len(chunks) /\ chunks[c].state = "waiting"

\* chunk c has its permit, now or earlier
Served(c) == c <= Len(chunks) /\ chunks[c].state # "waiting"

\* the chunks that hold a permit
Holders == {c \in 1..Len(chunks) : chunks[c].state \in {"acquired", "pausing",
        "running"}}

\* the permits are between 0 and the number the semaphore was built with, the
\* permits out are the permits of the holders, and the queue holds the waiting
\* chunks, each once, in the order of their acquire calls
SemaphoreInvariant ==
    /\ processingSemaphore.permits \in 0..processingSemaphore.capacity
    /\ processingSemaphore.permits + Cardinality(Holders) = processingSemaphore.capacity
    /\ Range(processingSemaphore.waitQueue) = {c \in 1..Len(chunks) : Waiting(c)}
    /\ \A i, j \in 1..Len(processingSemaphore.waitQueue) :
           i < j => processingSemaphore.waitQueue[i] < processingSemaphore.waitQueue[j]
    /\ processingSemaphore.waitQueue # <<>> => processingSemaphore.permits = 0

\* a step serves no waiter but the head of the queue, and the free permits change
\* by one at most
FifoStep ==
    /\ \A c \in 1..Len(chunks) :
           (Waiting(c) /\ chunks'[c].state # "waiting") =>
               /\ processingSemaphore.waitQueue[1] = c
               /\ processingSemaphore'.waitQueue = Tail(processingSemaphore.waitQueue)
               /\ chunks'[c].state = "acquired"
    /\ ppc # "start" =>
           processingSemaphore'.permits - processingSemaphore.permits \in {-1, 0, 1}

\* C30: whatever maxConcurrentChunks (at least 1) and whatever the order in which
\* the normalizations settle, by returning or by throwing, every chunk that waits
\* for a permit gets one, waiters are served first come first served, every
\* permit taken is given back exactly once, and the free permits stay between 0
\* and maxConcurrentChunks.
C30_EveryChunkGetsItsPermit ==
    /\ []SemaphoreInvariant
    /\ [][FifoStep]_vars
    /\ \A c \in 1..MaxLogs : Waiting(c) ~> Served(c)

\* a semaphore of one permit with the three chunks of one batch: the first has
\* settled, the second, which waited, has the permit, and the third still waits
C30_Witness ==
    /\ processingSemaphore.capacity = 1
    /\ Len(joined) = 3
    /\ chunks[joined[1]].state \in {"done", "failed"}
    /\ joined[2] \in Holders
    /\ processingSemaphore.waitQueue = <<joined[3]>>

(***************************************************************************)
(* SpecAnalyze: two calls of CoreDetectionEngine.analyze on the same logs  *)
(* with the default configuration, while the wall clock advances.  The     *)
(* logs are fewer than one chunk, so a call is the recency filter, one     *)
(* normalizeBatch, one classify and the annotation; it runs in one step.   *)
(***************************************************************************)
MaxAnalyzeLogs == 2

Hours(h) == h * 3600000

\* the clock readings of the calls: with the 48-hour window a log of hour 2 is
\* recent at hour 49 only and a log of hour 4 at every reading
AnalyzeClocks == {Hours(49), Hours(51), Hours(52)}

BrowserUserAgent == <<"M", "o", "z", "i", "l", "l", "a", "/", "5", ".", "0", " ", "(",
        "X", "1", "1", ")", " ", "C", "h", "r", "o", "m", "e", "/", "1", "2", "0", ".",
        "0">>
GooglebotUserAgent == <<"G", "o", "o", "g", "l", "e", "b", "o", "t", "/", "2", ".",
        "1">>
GooglebotCurlUserAgent == <<"G", "o", "o", "g", "l", "e", "b", "o", "t", "/", "2", ".",
        "1", " ", "c", "u", "r", "l">>

\* a browser on the home page with a referer, at two times; Googlebot from two
\* addresses inside its declared ranges 66.249.64.0/19 and 209.85.128.0/17; and
\* a user agent that matches both Googlebot's pattern and /curl/i
AnalyzeRequests ==
    {[ip |-> <<"1", ".", "2", ".", "3", ".", "4">>, ua |-> BrowserUserAgent,
            ts |-> Hours(2), path |-> <<"/">>,
      referer |-> <<"h", "t", "t", "p", "s", ":", "/", "/", "a", ".", "i", "o", "/">>,
              rt |-> 120, bytes |-> 500],
     [ip |-> <<"1", ".", "2", ".", "3", ".", "4">>, ua |-> BrowserUserAgent,
             ts |-> Hours(4), path |-> <<"/">>,
      referer |-> <<"h", "t", "t", "p", "s", ":", "/", "/", "a", ".", "i", "o", "/">>,
              rt |-> 120, bytes |-> 500],
     [ip |-> <<"6", "6", ".", "2", "4", "9", ".", "6", "4", ".", "5", "0">>,
             ua |-> GooglebotUserAgent, ts |-> Hours(4),
      path |-> <<"/", "p", "a", "g", "e", "/", "1">>, referer |-> <<>>, rt |-> 0,
              bytes |-> 900],
     [ip |-> <<"2", "0", "9", ".", "8", "5", ".", "1", "2", "8", ".", "1">>,
             ua |-> GooglebotUserAgent, ts |-> Hours(4),
      path |-> <<"/", "r", "o", "b", "o", "t", "s", ".", "t", "x", "t">>,
              referer |-> <<>>, rt |-> 0, bytes |-> 300],
     [ip |-> <<"6", "6", ".", "2", "4", "9", ".", "6", "4", ".", "5", "0">>,
             ua |-> GooglebotCurlUserAgent, ts |-> Hours(4),
      path |-> <<"/", "p", "a", "g", "e", "/", "2">>, referer |-> <<>>, rt |-> 0,
              bytes |-> 700]}

AnalyzeLog(k, r) == LogEntry(k, r.ip, r.ua, r.ts, r.path, r.referer, r.rt, r.bytes)

AnalyzeInputs ==
    UNION {{[k \in 1..n |-> AnalyzeLog(k, rs[k])] : rs \in [1..n -> AnalyzeRequests]} :
           n \in 0..MaxAnalyzeLogs}

InitAnalyze ==
    /\ IdleGroup
    /\ IdleLoader
    /\ IdlePipe
    /\ ipRangeCache = EmptyCache
    /\ checkIp = <<>> /\ checkCidrs = <<>> /\ checkResult = FALSE /\ cpc = "idle"
    /\ enhancedSignatures = CatalogSignatures
    /\ legacyTable \in {table \in LegacyTables : table # <<>>}
    /\ matchUa = <<>> /\ matchIp = <<>> /\ matchResult = NoMatch /\ mpc = "idle"
    /\ adds = 0
    /\ wallClock = Hours(49)
    /\ analyzeInput \in AnalyzeInputs
    /\ analyzeRange = NoRange
    /\ IdleVelocity
    /\ analyzeResults = <<>>
    /\ analyzeCalls = <<>>

AnalyzeUnchanged ==
    UNCHANGED <<checkIp, checkCidrs, checkResult, cpc, matchVars, analyzeInput,
                analyzeRange, outsideAnalyze>>

\* one call of analyze at the present clock reading; the matcher's parse cache
\* keeps what the call's matchSignature calls put into it
CallAnalyze ==
    /\ Len(analyzeResults) < 2
    /\ \E result \in {ProcessRecentLogs(analyzeInput, wallClock, enhancedSignatures,
                                        legacyTable, ipRangeCache)} :
          /\ analyzeResults' = Append(analyzeResults, Analyze(result))
          /\ analyzeCalls' = Append(analyzeCalls,
                                    [at |-> wallClock, sessions |-> result.results])
    /\ \E ss \in {ClassifierSessions(NormalizeBatch(FilterRecentLogs(analyzeInput,
                                                                        wallClock)))} :
          ipRangeCache' = CacheAfterSessions(ss, enhancedSignatures, ipRangeCache)
    /\ UNCHANGED wallClock
    /\ AnalyzeUnchanged

\* time passes
Tick ==
    /\ \E t \in AnalyzeClocks : t > wallClock /\ wallClock' = t
    /\ UNCHANGED <<ipRangeCache, analyzeResults, analyzeCalls>>
    /\ AnalyzeUnchanged

NextAnalyze == CallAnalyze \/ Tick

SpecAnalyze == InitAnalyze /\ [][NextAnalyze]_vars

\* the logs that passed the recency filter of call k
RecentOfCall(k) == FilterRecentLogs(analyzeInput, analyzeCalls[k].at)

\* the case of C2 in call k: the batch is one recent request on path '/' with a
\* referer, whose user agent matches no signature
SingleBrowserRequest(k) ==
    /\ Len(analyzeInput) = 1
    /\ Len(RecentOfCall(k)) = 1
    /\ analyzeInput[1].path = <<"/">>
    /\ analyzeInput[1].referer # <<>>
    /\ ~MatchSignature(enhancedSignatures, legacyTable, analyzeInput[1].ua,
                       analyzeInput[1].ip, EmptyCache).matched

\* C2: a batch of a single request with a browser user agent that matches no bot
\* signature, path '/', and a referer yields a final confidence below 0.3: the
\* session is not in the bots list and the request is counted as human
\* (totalRequests 1, botRequests 0, humanRequests 1).
C2_SingleBrowserRequestIsHuman ==
    \A k \in 1..Len(analyzeCalls) :
        SingleBrowserRequest(k) =>
            /\ ConfidenceBelow(analyzeCalls[k].sessions[1].classification.confidence,
                    300)
            /\ analyzeResults[k].botAnalysis.bots = <<>>
            /\ analyzeResults[k].botAnalysis.summary.totalRequests = 1
            /\ analyzeResults[k].botAnalysis.summary.botRequests = 0
            /\ analyzeResults[k].botAnalysis.summary.humanRequests = 1

\* the case of C3 for a detection: its user agent matches a registered signature
\* and its address lies in one of the ranges that signature declares
InDeclaredRange(detection) ==
    LET Declared(i) ==
            /\ i # 0
            /\ enhancedSignatures[i].hasRanges
            /\ LiesInSomeCidr(detection.ip, enhancedSignatures[i].ipRanges)
    IN  Declared(FirstMatching(enhancedSignatures, detection.userAgent))

\* C3: every session whose user agent matches a registered signature pattern and
\* whose address lies inside one of that signature's declared CIDR ranges is
\* reported with verified = true and confidence at least 0.9.
C3_InRangeMatchVerifiedHighConfidence ==
    \A k \in 1..Len(analyzeCalls) :
        \A s \in 1..Len(analyzeCalls[k].sessions) :
            InDeclaredRange(analyzeCalls[k].sessions[s]) =>
                /\ analyzeCalls[k].sessions[s].classification.verified
                /\ ~ConfidenceBelow(analyzeCalls[k].sessions[s].classification.confidence,
                                    900)

\* the three parts of a result that C6 compares
SameOutput(a, b) ==
    /\ a.botAnalysis.summary = b.botAnalysis.summary
    /\ a.botAnalysis.bots = b.botAnalysis.bots
    /\ a.normalizedLogs = b.normalizedLogs

EmptyOutputAt(a, now) ==
    /\ a.botAnalysis.summary = CreateEmptyResult(now).analysis.summary
    /\ a.botAnalysis.bots = <<>>
    /\ a.normalizedLogs = Undefined

BotRows(k) ==
    {r \in 1..Len(analyzeResults[k].normalizedLogs) :
        analyzeResults[k].normalizedLogs[r].is_bot}

\* the rows of result k that detection d counts in its requestCount: the rows of
\* its address and user agent
CountedRows(k, d) ==
    {r \in 1..Len(analyzeResults[k].normalizedLogs) :
        /\ OrUnknown(analyzeResults[k].normalizedLogs[r].ip) = d.ip
        /\ OrUnknown(analyzeResults[k].normalizedLogs[r].ua) = d.userAgent}

\* C28: with rows that carry the id of their gap-split session, every row counted
\* in the requestCount of a detection of the bots list is marked is_bot, and the
\* number of rows marked as a bot is summary.botRequests.
C28_BotRowsAreTheCountedRows ==
    \A k \in 1..Len(analyzeResults) :
        RecentOfCall(k) # <<>> =>
            /\ \A b \in 1..Len(analyzeResults[k].botAnalysis.bots) :
                   CountedRows(k,
                           analyzeResults[k].botAnalysis.bots[b]) \subseteq BotRows(k)
            /\ Cardinality(BotRows(k)) = analyzeResults[k].botAnalysis.summary.botRequests

(***************************************************************************)
(* SpecRange: one call of CoreDetectionEngine.analyzeTimeRange on logs of   *)
(* hours 2 and 4 with an explicit window, while the wall clock advances.    *)
(***************************************************************************)
\* the windows of the calls: hour 2 only, hour 4 only, both, neither
AnalyzeRanges ==
    {[start |-> Hours(1), end |-> Hours(3)], [start |-> Hours(3), end |-> Hours(5)],
     [start |-> Hours(1), end |-> Hours(5)], [start |-> Hours(5), end |-> Hours(6)]}

InitRange ==
    /\ IdleGroup
    /\ IdleLoader
    /\ IdlePipe
    /\ ipRangeCache = EmptyCache
    /\ checkIp = <<>> /\ checkCidrs = <<>> /\ checkResult = FALSE /\ cpc = "idle"
    /\ enhancedSignatures = CatalogSignatures
    /\ legacyTable \in {table \in LegacyTables : table # <<>>}
    /\ matchUa = <<>> /\ matchIp = <<>> /\ matchResult = NoMatch /\ mpc = "idle"
    /\ adds = 0
    /\ wallClock = Hours(49)
    /\ analyzeInput \in AnalyzeInputs
    /\ analyzeRange \in AnalyzeRanges
    /\ IdleVelocity
    /\ analyzeResults = <<>>
    /\ analyzeCalls = <<>>

\* the logs of the input inside the window of the call
InWindow == InTimeRange(analyzeInput, analyzeRange.start, analyzeRange.end)

\* one call of analyzeTimeRange at the present clock reading
CallAnalyzeTimeRange ==
    /\ analyzeResults = <<>>
    /\ analyzeResults' =
           <<AnalyzeTimeRange(analyzeInput, analyzeRange.start, analyzeRange.end,
                              wallClock, enhancedSignatures, legacyTable,
                                      ipRangeCache)>>
    /\ analyzeCalls' =
           <<[at |-> wallClock,
              sessions |-> ProcessRecentLogs(InWindow, wallClock, enhancedSignatures,
                                             legacyTable, ipRangeCache).results]>>
    /\ \E ss \in {ClassifierSessions(NormalizeBatch(FilterRecentLogs(InWindow,
                                                                        wallClock)))} :
          ipRangeCache' = CacheAfterSessions(ss, enhancedSignatures, ipRangeCache)
    /\ UNCHANGED wallClock
    /\ AnalyzeUnchanged

NextRange == CallAnalyzeTimeRange \/ Tick

SpecRange == InitRange /\ [][NextRange]_vars

\* the ids of the entries a result reports on: its annotated rows
AnalyzedIds(result) ==
    IF result.normalizedLogs = Undefined THEN <<>>
    ELSE [k \in 1..Len(result.normalizedLogs) |-> result.normalizedLogs[k].id]

\* C11: analyzeTimeRange(entries, key, start, end) analyzes exactly the entries
\* whose timestamp lies in [start, end]: the explicit window replaces the default
\* recency cutoff, so an in-window entry older than the recency window is still
\* analyzed.
C11_AnalyzesExactlyTheWindow ==
    \A k \in 1..Len(analyzeResults) :
        /\ AnalyzedIds(analyzeResults[k]) = [j \in 1..Len(InWindow) |-> InWindow[j].id]
        /\ analyzeResults[k].botAnalysis.summary.totalRequests = Len(InWindow)

\* C12: when no entry survives the recency filter (an empty input list included),
\* analyze throws no error and returns a result of the same shape as for other
\* input: totalRequests, botRequests and humanRequests are 0, bots is empty,
\* timeRange is not null, and the list of annotated entries is present and empty.
C12_EmptyResultIsWellFormed ==
    \A k \in 1..Len(analyzeResults) :
        RecentOfCall(k) = <<>> =>
            /\ analyzeResults[k].botAnalysis.summary.totalRequests = 0
            /\ analyzeResults[k].botAnalysis.summary.botRequests = 0
            /\ analyzeResults[k].botAnalysis.summary.humanRequests = 0
            /\ analyzeResults[k].botAnalysis.bots = <<>>
            /\ analyzeResults[k].botAnalysis.summary.timeRange \in [start : Nat,
                    end : Nat]
            /\ analyzeResults[k].normalizedLogs = <<>>

(***************************************************************************)
(* SpecFaulty: calls of analyze on a parameter sweep by one client, one of *)
(* whose request targets may be malformed, with or without a request of    *)
(* Googlebot beside it.                                                    *)
(***************************************************************************)
MaxSweep == 5

SweepIp == <<"1", "0", ".", "0", ".", "0", ".", "9">>
SweepUserAgent == <<"S", "w", "e", "e", "p", "e", "r", "/", "1", ".", "0">>
MalformedPath == <<":", "x">>
SweepPath(k) == <<"/", "p", "?", "i", "d", "=">> \o <<Digits[k + 1]>>

\* the k-th request of a sweep whose request malformedAt is malformed, one a second
SweepLog(id, k, malformedAt) ==
    LogEntry(id, SweepIp, SweepUserAgent, Hours(4) + 1000 * k,
             IF k = malformedAt THEN MalformedPath ELSE SweepPath(k), <<>>, 0, 200)

GooglebotLog(id) ==
    LogEntry(id, <<"6", "6", ".", "2", "4", "9", ".", "6", "4", ".", "5", "0">>,
            GooglebotUserAgent, Hours(4), <<"/", "p", "a", "g", "e", "/", "1">>, <<>>,
            0, 900)

\* a sweep of n requests, after or before a request of Googlebot or alone
SweepAlone(n, m) == [k \in 1..n |-> SweepLog(k, k, m)]
SweepAfterGooglebot(n, m) == <<GooglebotLog(1)>> \o [k \in 1..n |-> SweepLog(k + 1, k,
        m)]
SweepBeforeGooglebot(n, m) == Append(SweepAlone(n, m), GooglebotLog(n + 1))

FaultyInputs ==
    UNION {{SweepAlone(n, m), SweepAfterGooglebot(n, m), SweepBeforeGooglebot(n, m)} :
           n \in (MaxSweep - 1)..MaxSweep, m \in 0..MaxSweep}

InitFaulty ==
    /\ IdleGroup
    /\ IdleLoader
    /\ IdlePipe
    /\ ipRangeCache = EmptyCache
    /\ checkIp = <<>> /\ checkCidrs = <<>> /\ checkResult = FALSE /\ cpc = "idle"
    /\ enhancedSignatures = CatalogSignatures
    /\ legacyTable \in {table \in LegacyTables : table # <<>>}
    /\ matchUa = <<>> /\ matchIp = <<>> /\ matchResult = NoMatch /\ mpc = "idle"
    /\ adds = 0
    /\ wallClock = Hours(49)
    /\ analyzeInput \in FaultyInputs
    /\ analyzeRange = NoRange
    /\ IdleVelocity
    /\ analyzeResults = <<>>
    /\ analyzeCalls = <<>>

SpecFaulty == InitFaulty /\ [][NextAnalyze]_vars

\* the sessions that classify of call k was handed
SessionsOfCall(k) == ClassifierSessions(NormalizeBatch(RecentOfCall(k)))

\* the detection of a session is among those that call k produced
Reported(k, sessionLogs) ==
    \E d \in 1..Len(analyzeCalls[k].sessions) :
        /\ analyzeCalls[k].sessions[d].ip = OrUnknown(sessionLogs[1].ip)
        /\ analyzeCalls[k].sessions[d].userAgent = OrUnknown(sessionLogs[1].ua)

\* C13: if one analyzer throws while processing one session, classification of
\* the batch still completes and returns results for every other session; the
\* failure affects at most the failing session's confidence or verdict.
C13_AnalyzerFailureStaysInItsSession ==
    \A k \in 1..Len(analyzeResults) :
        (\E s \in 1..Len(SessionsOfCall(k)) : ClassifySessionThrows(SessionsOfCall(k)[s]))
            => /\ analyzeResults[k] # Analyze(Rejection)
               /\ \A s \in 1..Len(SessionsOfCall(k)) :
                      ~ClassifySessionThrows(SessionsOfCall(k)[s])
                          => Reported(k, SessionsOfCall(k)[s])

(***************************************************************************)
(* SpecBatch: calls of analyze on batches put together from whole visits:  *)
(* a person browsing three pages, one request of Googlebot, one request of *)
(* a browser, and one OPTIONS * probe.                                     *)
(***************************************************************************)
MaxBlocks == 2

BlockNames == {"person", "googlebot", "browser", "probe"}

PersonLog(id, ts, path, rt) ==
    LogEntry(id, <<"1", ".", "2", ".", "3", ".", "4">>, BrowserUserAgent, ts, path,
            <<"h", "t", "t", "p", "s", ":", "/", "/", "a", ".", "i", "o", "/">>, rt,
            500)

\* the entries of a visit, with ids from off + 1 on
Block(name, off) ==
    IF name = "person"
    THEN <<PersonLog(off + 1, Hours(4), <<"/">>, 120),
           PersonLog(off + 2, Hours(4) + 40000, <<"/", "a", "b", "o", "u", "t">>, 80),
           PersonLog(off + 3, Hours(4) + 75000, <<"/", "p", "r", "i", "c", "i", "n",
                   "g">>, 200)>>
    ELSE IF name = "googlebot" THEN <<GooglebotLog(off + 1)>>
    ELSE IF name = "browser"
    THEN <<LogEntry(off + 1, <<"5", ".", "6", ".", "7", ".", "8">>, BrowserUserAgent,
            Hours(4), <<"/">>,
                    <<"h", "t", "t", "p", "s", ":", "/", "/", "a", ".", "i", "o",
                            "/">>, 120, 500)>>
    ELSE <<LogEntry(off + 1, <<"1", "0", ".", "0", ".", "0", ".", "7">>, <<"P", "r",
            "o", "b", "e">>, Hours(4), <<"*">>, <<>>, 0, 0)>>

RECURSIVE BatchOf(_, _)
BatchOf(names, off) ==
    IF names = <<>> THEN <<>>
    ELSE Block(Head(names), off) \o BatchOf(Tail(names), off + Len(Block(Head(names),
            off)))

\* the batches of at most MaxBlocks different visits, in any order
BatchInputs ==
    {BatchOf(names, 0) :
        names \in {ns \in SeqsUpTo(BlockNames, MaxBlocks) :
                      \A i, j \in 1..Len(ns) : ns[i] = ns[j] => i = j}}

InitBatch ==
    /\ IdleGroup
    /\ IdleLoader
    /\ IdlePipe
    /\ ipRangeCache = EmptyCache
    /\ checkIp = <<>> /\ checkCidrs = <<>> /\ checkResult = FALSE /\ cpc = "idle"
    /\ enhancedSignatures = CatalogSignatures
    /\ legacyTable \in {table \in LegacyTables : table # <<>>}
    /\ matchUa = <<>> /\ matchIp = <<>> /\ matchResult = NoMatch /\ mpc = "idle"
    /\ adds = 0
    /\ wallClock = Hours(49)
    /\ analyzeInput \in BatchInputs
    /\ analyzeRange = NoRange
    /\ IdleVelocity
    /\ analyzeResults = <<>>
    /\ analyzeCalls = <<>>

SpecBatch == InitBatch /\ [][NextAnalyze]_vars

UnitDouble(x) == ~x.neg /\ F64Leq(x, DoubleOf(1000))
UnitRatio(r) == ~RLess(r, Rat(0, 1)) /\ ~RLess(Rat(1, 1), r)
UnitBurstScore(burst) == burst.zero \/ ~RLess(burst.rest, Rat(0, 1))
UnitDepthConsistency(dc) == dc.zero \/ (~dc.nan /\ ~RLess(dc.cvSq, Rat(0, 1)))
UnitConfidence(c) == ~ConfidenceBelow(c, 0) /\ ~ConfidenceAbove(c, 1000)

ScoresInUnitInterval(detection) ==
    /\ UnitBurstScore(detection.analysis.velocity.burstScore)
    /\ UnitDouble(detection.analysis.velocity.confidence)
    /\ UnitDouble(detection.analysis.pattern.confidence)
    /\ UnitRatio(detection.analysis.pattern.indicators.sequentialScore)
    /\ UnitRatio(detection.analysis.pattern.indicators.systematicScore)
    /\ UnitDepthConsistency(detection.analysis.pattern.indicators.depthConsistency)
    /\ UnitDouble(detection.analysis.behavior.humanScore)
    /\ UnitConfidence(detection.classification.confidence)

\* C16: for every input, every confidence and score field produced by the
\* analyzers and the classifier (velocity burstScore and confidence; pattern
\* confidence, sequentialScore, systematicScore and depthConsistency; behavior
\* humanScore; final classification confidence) is a number in [0, 1].
C16_ScoresInUnitInterval ==
    \A k \in 1..Len(analyzeCalls) :
        \A d \in 1..Len(analyzeCalls[k].sessions) :
            ScoresInUnitInterval(analyzeCalls[k].sessions[d])


\* the user agent and address of a detection match no signature
MatchesNoSignature(detection) ==
    ~MatchSignature(enhancedSignatures, legacyTable, detection.userAgent, detection.ip,
                    EmptyCache).matched

\* one of the three analyses of a detection enters the weighted mean
SomeAnalysisContributes(detection) ==
    \/ detection.analysis.velocity.isBot
    \/ F64Less(DoubleOf(500), detection.analysis.pattern.confidence)
    \/ F64Less(DoubleOf(500), F64Sub(DoubleOf(1000),
            detection.analysis.behavior.humanScore))

IsZero(c) == ~RLess(Rat(0, 1), c) /\ ~RLess(c, Rat(0, 1))

\* C29: with the default weights the final confidence of a session without a
\* signature match is exactly 0, when no analysis contributes, or at least 0.5;
\* so the session is listed in bots if and only if the velocity verdict, the
\* pattern confidence above 0.5 or a bot score above 0.5 contributes.
C29_UnsignedConfidenceIsZeroOrHalf ==
    \A k \in 1..Len(analyzeResults) :
        \A d \in 1..Len(analyzeCalls[k].sessions) :
            MatchesNoSignature(analyzeCalls[k].sessions[d]) =>
                /\ IF SomeAnalysisContributes(analyzeCalls[k].sessions[d])
                   THEN ~ConfidenceBelow(analyzeCalls[k].sessions[d].classification.confidence, 500)
                   ELSE IsZero(analyzeCalls[k].sessions[d].classification.confidence)
                /\ (analyzeCalls[k].sessions[d] \in Range(analyzeResults[k].botAnalysis.bots))
                       <=> SomeAnalysisContributes(analyzeCalls[k].sessions[d])

\* a call on a batch with two sessions that match no signature: one to which no
\* analysis contributes, with confidence 0 and left out of bots, and one to
\* which an analysis contributes, with confidence 0.5 or more and listed
C29_Witness ==
    /\ Len(analyzeResults) >= 1
    /\ \E d, e \in 1..Len(analyzeCalls[1].sessions) :
          /\ MatchesNoSignature(analyzeCalls[1].sessions[d])
          /\ ~SomeAnalysisContributes(analyzeCalls[1].sessions[d])
          /\ IsZero(analyzeCalls[1].sessions[d].classification.confidence)
          /\ analyzeCalls[1].sessions[d] \notin Range(analyzeResults[1].botAnalysis.bots)
          /\ MatchesNoSignature(analyzeCalls[1].sessions[e])
          /\ SomeAnalysisContributes(analyzeCalls[1].sessions[e])
          /\ ~ConfidenceBelow(analyzeCalls[1].sessions[e].classification.confidence,
                  500)
          /\ analyzeCalls[1].sessions[e] \in Range(analyzeResults[1].botAnalysis.bots)

(***************************************************************************)
(* SpecVelocity: analyzeIP on the requests of one address and on the same  *)
(* number of requests of that address arriving with other gaps; and        *)
(* analyzeIP on 200 requests of the address within one second.             *)
(***************************************************************************)
MaxVelocityRequests == 3

VelocityIp == <<"1", "9", "2", ".", "1", "6", "8", ".", "1", ".", "1", "0", "0">>
OtherIp == <<"1", "9", "2", ".", "1", "6", "8", ".", "1", ".", "7">>

\* the gaps between consecutive requests, in milliseconds
VelocityGaps == {939, 967, 1010, 1040}

VelocityLog(id, ip, ts) == LogEntry(id, ip, <<"R", "a", "p", "i", "d", "B", "o", "t",
        "/", "1", ".", "0">>, ts, <<"/">>, <<>>, 50, 5000)

\* requests of VelocityIp with the given gaps, the first one at time zero
RequestsWithGaps(gaps) ==
    Listed([k \in 1..(Len(gaps) + 1) |->
               VelocityLog(k, VelocityIp, Sum(SubSeq(gaps, 1, k - 1)))])

\* the entries of a call: one request of another address ahead of the address's own
EntriesWithGaps(gaps) == <<VelocityLog(0, OtherIp, 0)>> \o RequestsWithGaps(gaps)

GapLists == {gaps \in SeqsUpTo(VelocityGaps, MaxVelocityRequests - 1) : gaps # <<>>}

\* 200 requests within one second
WithinOneSecond == [k \in 1..199 |-> 5]

FasterChoices(slow) == {gaps \in GapLists : Len(gaps) = Len(slow)}
VelocityInputs ==
    UNION {{<<EntriesWithGaps(slow), EntriesWithGaps(fast)>> : fast \in FasterChoices(slow)} :
              slow \in GapLists}
    \cup {<<EntriesWithGaps(WithinOneSecond)>>}

InitVelocity ==
    /\ IdleGroup
    /\ IdleCidr
    /\ IdleMatch
    /\ IdleLoader
    /\ IdlePipe
    /\ IdleAnalyze
    /\ velocityRequests \in VelocityInputs
    /\ velocityAnalyses = <<>>

\* analyzeIP
AnalyzeIP(ip, es) == AnalyzeIPVelocity(ip, SelectSeq(es, LAMBDA e : e.ip = ip))

\* one call of analyzeIP, on the next list of entries
CallAnalyzeIP ==
    /\ Len(velocityAnalyses) < Len(velocityRequests)
    /\ velocityAnalyses' =
           Append(velocityAnalyses,
                  AnalyzeIP(VelocityIp, velocityRequests[Len(velocityAnalyses) + 1]))
    /\ UNCHANGED <<velocityRequests, groupVars, cidrVars, matchVars, loaderVars,
            pipeVars,
                   analyzeVars>>

NextVelocity == CallAnalyzeIP

SpecVelocity == InitVelocity /\ [][NextVelocity]_vars

OwnRequests(es) == SortByTs(SelectSeq(es, LAMBDA e : e.ip = VelocityIp))

\* the second list holds as many requests of the address as the first, over a
\* shorter time span
ArrivesFaster(slow, fast) ==
    /\ Len(OwnRequests(fast)) = Len(OwnRequests(slow))
    /\ TimeSpanMs(OwnRequests(fast)) < TimeSpanMs(OwnRequests(slow))

\* C17: when the same number of requests of an address arrives over a shorter
\* time span, a verdict isBot = true does not turn into isBot = false; and 200
\* requests within one second are given isBot = true.
C17_FasterNeverLosesTheVerdict ==
    /\ Len(velocityAnalyses) = 2 /\ ArrivesFaster(velocityRequests[1],
            velocityRequests[2])
           /\ velocityAnalyses[1].isBot
        => velocityAnalyses[2].isBot
    /\ \A k \in 1..Len(velocityAnalyses) :
           Len(OwnRequests(velocityRequests[k])) = 200
               /\ TimeSpanMs(OwnRequests(velocityRequests[k])) <= 1000
           => velocityAnalyses[k].isBot


(***************************************************************************)
(* SpecRapid: calls of analyze on the batch of testVelocityAnalysis, 50    *)
(* requests of one address 200 ms apart, alone or with another visit       *)
(* ahead of them or behind them.                                           *)
(***************************************************************************)
RapidRequests == 50
RapidIntervalMs == 200

RapidIp == <<"1", "9", "2", ".", "1", "6", "8", ".", "1", ".", "1", "0", "0">>
RapidUserAgent == <<"R", "a", "p", "i", "d", "B", "o", "t", "/", "1", ".", "0">>

\* the request of loop index i
RapidLog(id, i) ==
    LogEntry(id, RapidIp, RapidUserAgent, Hours(4) + i * RapidIntervalMs,
             <<"/", "p", "a", "g", "e", "/">> \o DecimalString(i), <<>>, 50, 5000)

RapidLogs(off) == Listed([k \in 1..RapidRequests |-> RapidLog(off + k, k - 1)])

RapidCompanions == {"person", "googlebot", "browser"}

RapidInputs ==
    {RapidLogs(0)}
    \cup {RapidLogs(0) \o Block(name, RapidRequests) : name \in RapidCompanions}
    \cup {Block(name, 0) \o RapidLogs(Len(Block(name, 0))) : name \in RapidCompanions}

InitRapid ==
    /\ IdleGroup
    /\ IdleLoader
    /\ IdlePipe
    /\ IdleVelocity
    /\ ipRangeCache = EmptyCache
    /\ checkIp = <<>> /\ checkCidrs = <<>> /\ checkResult = FALSE /\ cpc = "idle"
    /\ enhancedSignatures = CatalogSignatures
    /\ legacyTable \in LegacyTables
    /\ matchUa = <<>> /\ matchIp = <<>> /\ matchResult = NoMatch /\ mpc = "idle"
    /\ adds = 0
    /\ wallClock = Hours(49)
    /\ analyzeInput \in RapidInputs
    /\ analyzeRange = NoRange
    /\ analyzeResults = <<>>
    /\ analyzeCalls = <<>>

SpecRapid == InitRapid /\ [][NextAnalyze]_vars

\* the sessions of call k that hold the 50 requests of the loop
RapidSessions(k) ==
    {d \in 1..Len(analyzeCalls[k].sessions) :
        /\ analyzeCalls[k].sessions[d].ip = RapidIp
        /\ analyzeCalls[k].sessions[d].requestCount = RapidRequests}

\* RapidBot/1.0 matches no registered signature and no needle of the legacy table
RapidMatchesNoSignature ==
    ~MatchSignature(enhancedSignatures, legacyTable, RapidUserAgent, RapidIp,
                    EmptyCache).matched

\* C18: 50 requests from one address at exactly 200 ms intervals, with a
\* User-Agent that matches no signature, are one session with velocity.isBot =
\* true, and that session is listed in bots with impact medium, high or extreme.
C18_RapidRequestsAreListedAsBot ==
    \A k \in 1..Len(analyzeResults) :
        RapidMatchesNoSignature =>
            /\ RapidSessions(k) # {}
            /\ \A d \in RapidSessions(k) :
                   /\ analyzeCalls[k].sessions[d].analysis.velocity.isBot
                   /\ analyzeCalls[k].sessions[d]
                          \in Range(analyzeResults[k].botAnalysis.bots)
                   /\ analyzeCalls[k].sessions[d].classification.impact
                          \in {"medium", "high", "extreme"}

\* a call on the 50 requests alone, with an empty legacy table: the verdict is
\* isBot = true at 5.1 requests a second, and the one session is listed
C18_Witness ==
    /\ Len(analyzeResults) >= 1
    /\ analyzeInput = RapidLogs(0)
    /\ RapidMatchesNoSignature
    /\ RapidSessions(1) = {1}
    /\ analyzeCalls[1].sessions[1].analysis.velocity.isBot
    /\ RLess(Rat(5, 1), analyzeCalls[1].sessions[1].analysis.velocity.requestsPerSecond)
    /\ Len(analyzeResults[1].botAnalysis.bots) = 1
    /\ analyzeResults[1].botAnalysis.bots[1].classification.impact = "high"

(***************************************************************************)
(* The session of testPatternDetection: /page/1 to /page/20 from one       *)
(* address, five seconds apart, and a request of /sitemap.xml at the base  *)
(* time, through analyze.                                                  *)
(***************************************************************************)
SequentialPages == 20
SequentialIntervalMs == 5000

SequentialIp == <<"1", "0", ".", "0", ".", "0", ".", "5", "0">>
SequentialUserAgent == <<"S", "e", "q", "u", "e", "n", "t", "i", "a", "l", "B", "o",
        "t", "/", "1", ".", "0">>
SitemapPath == <<"/", "s", "i", "t", "e", "m", "a", "p", ".", "x", "m", "l">>

\* the request of loop index i, and the sitemap request
PageLog(id, i) ==
    LogEntry(id, SequentialIp, SequentialUserAgent, Hours(4) + i * SequentialIntervalMs,
             <<"/", "p", "a", "g", "e", "/">> \o DecimalString(i), <<>>, 100, 10000)
SitemapLog(id) ==
    LogEntry(id, SequentialIp, SequentialUserAgent, Hours(4), SitemapPath, <<>>, 50,
            5000)

PageLogs(off) == Listed([k \in 1..SequentialPages |-> PageLog(off + k, k)])

\* the pages alone; the pages and then the sitemap request, as the test pushes
\* them; the sitemap request ahead of the pages; each alone or with a person's
\* visit in the batch
SequentialSessions ==
    {PageLogs(0),
     PageLogs(0) \o <<SitemapLog(SequentialPages + 1)>>,
     <<SitemapLog(1)>> \o PageLogs(1)}
SequentialInputs ==
    SequentialSessions
    \cup {logs \o Block("person", Len(logs)) : logs \in SequentialSessions}

InitSequential ==
    /\ IdleGroup
    /\ IdleLoader
    /\ IdlePipe
    /\ IdleVelocity
    /\ ipRangeCache = EmptyCache
    /\ checkIp = <<>> /\ checkCidrs = <<>> /\ checkResult = FALSE /\ cpc = "idle"
    /\ enhancedSignatures = CatalogSignatures
    /\ legacyTable \in LegacyTables
    /\ matchUa = <<>> /\ matchIp = <<>> /\ matchResult = NoMatch /\ mpc = "idle"
    /\ adds = 0
    /\ wallClock = Hours(49)
    /\ analyzeInput \in SequentialInputs
    /\ analyzeRange = NoRange
    /\ analyzeResults = <<>>
    /\ analyzeCalls = <<>>

SpecSequential == InitSequential /\ [][NextAnalyze]_vars

\* the paths of the entries of the address in the batch
PagePaths == {PageLog(0, i).path : i \in 1..SequentialPages}
SequentialPaths ==
    {analyzeInput[i].path : i \in {j \in 1..Len(analyzeInput) :
                                       analyzeInput[j].ip = SequentialIp}}

\* the sessions of call k that are the address's
SequentialDetections(k) ==
    {d \in 1..Len(analyzeCalls[k].sessions) :
        analyzeCalls[k].sessions[d].ip = SequentialIp}

\* C19: a session whose paths are /page/1 through /page/20, with or without one
\* more request of /sitemap.xml, has indicators.sequentialScore > 0.6 and
\* pattern type sequential.
C19_PagesInARowAreSequential ==
    \A k \in 1..Len(analyzeCalls) :
        SequentialPaths \in {PagePaths, PagePaths \cup {SitemapPath}} =>
            /\ SequentialDetections(k) # {}
            /\ \A d \in SequentialDetections(k) :
                   /\ analyzeCalls[k].sessions[d].requestCount = Cardinality(SequentialPaths)
                   /\ RLess(Rat(3, 5),
                            analyzeCalls[k].sessions[d].analysis.pattern.indicators.sequentialScore)
                   /\ analyzeCalls[k].sessions[d].analysis.pattern.type = "sequential"

\* the batch of the test, 21 requests: the sitemap was seen and all twenty
\* numbers are one run
C19_Witness ==
    /\ Len(analyzeCalls) >= 1
    /\ analyzeInput = PageLogs(0) \o <<SitemapLog(SequentialPages + 1)>>
    /\ SequentialDetections(1) = {1}
    /\ analyzeCalls[1].sessions[1].requestCount = SequentialPages + 1
    /\ analyzeCalls[1].sessions[1].analysis.pattern.indicators.sitemapAccess
    /\ analyzeCalls[1].sessions[1].analysis.pattern.indicators.sequentialScore = Rat(1,
            1)
    /\ analyzeCalls[1].sessions[1].analysis.pattern.type = "sequential"

(***************************************************************************)
(* SpecPooled: batches in which one address sends requests under two user  *)
(* agents, through analyze.                                                *)
(***************************************************************************)
PooledIp == <<"1", "9", "2", ".", "1", "6", "8", ".", "1", ".", "1", "0", "0">>
CrawlerUserAgent == <<"C", "r", "a", "w", "l", "e", "r", "/", "1", ".", "0">>
FetcherUserAgent == <<"F", "e", "t", "c", "h", "e", "r", "/", "2", ".", "0">>

\* three requests of the address, one second apart, from the offset on
PooledLog(id, ua, ts) ==
    LogEntry(id, PooledIp, ua, Hours(4) + ts, <<"/">>, <<>>, 50, 5000)
PooledBlock(name, off) ==
    IF name = "crawler"
    THEN <<PooledLog(off + 1, CrawlerUserAgent, 0),
           PooledLog(off + 2, CrawlerUserAgent, 1000),
           PooledLog(off + 3, CrawlerUserAgent, 2000)>>
    ELSE IF name = "fetcher"
    THEN <<PooledLog(off + 1, FetcherUserAgent, 500),
           PooledLog(off + 2, FetcherUserAgent, 1500),
           PooledLog(off + 3, FetcherUserAgent, 2500)>>
    ELSE Block("person", off)

RECURSIVE PooledBatchOf(_, _)
PooledBatchOf(names, off) ==
    IF names = <<>> THEN <<>>
    ELSE PooledBlock(Head(names), off)
             \o PooledBatchOf(Tail(names), off + Len(PooledBlock(Head(names), off)))

\* the batches of different visits, in any order
PooledInputs ==
    {PooledBatchOf(names, 0) :
        names \in {ns \in SeqsUpTo({"crawler", "fetcher", "person"}, 3) :
                      ns # <<>> /\ \A i, j \in 1..Len(ns) : ns[i] = ns[j] => i = j}}

InitPooled ==
    /\ IdleGroup
    /\ IdleLoader
    /\ IdlePipe
    /\ IdleVelocity
    /\ ipRangeCache = EmptyCache
    /\ checkIp = <<>> /\ checkCidrs = <<>> /\ checkResult = FALSE /\ cpc = "idle"
    /\ enhancedSignatures = CatalogSignatures
    /\ legacyTable \in LegacyTables
    /\ matchUa = <<>> /\ matchIp = <<>> /\ matchResult = NoMatch /\ mpc = "idle"
    /\ adds = 0
    /\ wallClock = Hours(49)
    /\ analyzeInput \in PooledInputs
    /\ analyzeRange = NoRange
    /\ analyzeResults = <<>>
    /\ analyzeCalls = <<>>

SpecPooled == InitPooled /\ [][NextAnalyze]_vars

\* the velocity analysis of an address over all its entries in the batch
PooledVelocity(ip, batch) ==
    AnalyzeIPVelocity(ip, SelectSeq(batch, LAMBDA e : OrUnknown(e.ip) = ip))

\* C22: the velocity analysis attached to a session's detection is computed from
\* all entries of the session's address in the analyzed batch, pooled across
\* every user agent seen from that address.
C22_VelocityIsPooledPerAddress ==
    \A k \in 1..Len(analyzeCalls) :
        \A d \in 1..Len(analyzeCalls[k].sessions) :
            analyzeCalls[k].sessions[d].analysis.velocity
                = PooledVelocity(analyzeCalls[k].sessions[d].ip, RecentOfCall(k))

(***************************************************************************)
(* SpecSplit: groupIntoSessions on entries of one address under two user   *)
(* agents, at timestamps half an hour apart and one millisecond more, with *)
(* sessions that can last longer than maxDurationHours.                    *)
(***************************************************************************)
MaxSplitEntries == 4

SplitUas == {<<"b">>, <<"c">>}
SplitTimes == {0, 1800000, 3600000, 3600001}

SplitInputs ==
    {NumberEntries(s, 1) :
        s \in SeqsUpTo({GroupEntry(0, <<"a">>, ua, ts) : ua \in SplitUas,
                ts \in SplitTimes},
                       MaxSplitEntries)}

InitSplit ==
    /\ IdleAnalyze
    /\ IdleVelocity
    /\ entries \in SplitInputs
    /\ sessions = <<>>
    /\ sessionConfig \in [maxGapMinutes : {30}, maxDurationHours : DurationChoices]
    /\ gpc = "ready"
    /\ input = entries
    /\ IdleCidr
    /\ IdleMatch
    /\ IdleLoader
    /\ IdlePipe

SpecSplit == InitSplit /\ [][NextGroup]_vars

\* the entries of the input that share the address and user agent of input[i]
GroupOf(i) ==
    {j \in 1..Len(input) : input[j].ip = input[i].ip /\ input[j].ua = input[i].ua}

\* somewhere from input[i] to input[j] in the time order of their group, two
\* neighbours are more than maxGapMinutes apart
GapBetween(i, j) ==
    \E u, v \in GroupOf(i) :
        /\ input[i].ts <= input[u].ts
        /\ input[v].ts <= input[j].ts
        /\ input[v].ts - input[u].ts > sessionConfig.maxGapMinutes * 60000
        /\ ~\E w \in GroupOf(i) : input[u].ts < input[w].ts /\ input[w].ts < input[v].ts

\* the sessions that hold input[i]
SessionsHolding(i) ==
    {s \in 1..Len(sessions) :
        \E k \in 1..Len(sessions[s].entries) : sessions[s].entries[k].id = input[i].id}

C27_SessionIdsAreDistinct ==
    gpc = "done" =>
        \A s, t \in 1..Len(sessions) :
            sessions[s].sessionId = sessions[t].sessionId => s = t

(***************************************************************************)
(* SpecWithConfig: processWithConfig calls on one pipeline.  A call saves  *)
(* a copy of the configuration, merges its argument into it and awaits     *)
(* processRecentLogs; when that settles, resolved or rejected, the finally *)
(* block assigns the saved copy back.  processRecentLogs never assigns the *)
(* configuration, so of a run only the way it settles is kept.  A second   *)
(* call can begin while the first is awaiting.                             *)
(***************************************************************************)
MaxWithConfigCalls == 2

ConfigKeys == {"chunkSize", "maxConcurrentChunks"}

ProcessingConfigs == [chunkSize : ChunkSizes, maxConcurrentChunks : ConcurrentChoices]

\* Partial<ProcessingConfig>: any of the keys may be absent
PartialConfigs ==
    {[k \in keys |-> full[k]] : keys \in SUBSET ConfigKeys, full \in ProcessingConfigs}

\* { ...base, ...config }
Spread(base, config) ==
    [k \in DOMAIN base \cup DOMAIN config |->
        IF k \in DOMAIN config THEN config[k] ELSE base[k]]

InitWithConfig ==
    /\ IdleAnalyze
    /\ IdleVelocity
    /\ IdleGroup
    /\ IdleCidr
    /\ IdleMatch
    /\ IdleLoader
    /\ recentLogs = <<>>
    /\ pconfig \in ProcessingConfigs
    /\ ppc = "idle"
    /\ loopI = 0
    /\ chunks = <<>>
    /\ chunkPromises = <<>>
    /\ joined = <<>>
    /\ processingSemaphore = Semaphore(0)
    /\ allDetectionEntries = <<>>
    /\ classifierInput = <<>>
    /\ classifyCalls = 0
    /\ finishOrder = <<>>
    /\ updates = 0
    /\ withConfigCalls = <<>>

WithConfigUnchanged == UNCHANGED <<recentLogs, ppc, loopI, chunks, chunkPromises,
        joined, processingSemaphore, allDetectionEntries, classifierInput,
        classifyCalls, finishOrder, updates, outsidePipe>>

\* processWithConfig up to its await
BeginProcessWithConfig ==
    /\ Len(withConfigCalls) < MaxWithConfigCalls
    /\ \E config \in PartialConfigs :
          /\ withConfigCalls' = Append(withConfigCalls, [config |-> config,
                  originalConfig |-> Spread(pconfig, <<>>), state |-> "awaiting"])
          /\ pconfig' = Spread(pconfig, config)
    /\ WithConfigUnchanged

\* processRecentLogs has settled: the finally block of call c, then the call settles
\* the same way
SettleProcessWithConfig(c) ==
    /\ withConfigCalls[c].state = "awaiting"
    /\ \E outcome \in {"resolved", "rejected"} :
          withConfigCalls' = [withConfigCalls EXCEPT ![c].state = outcome]
    /\ pconfig' = withConfigCalls[c].originalConfig
    /\ WithConfigUnchanged

NextWithConfig ==
    \/ BeginProcessWithConfig
    \/ \E c \in 1..Len(withConfigCalls) : SettleProcessWithConfig(c)

SpecWithConfig == InitWithConfig /\ [][NextWithConfig]_vars

\* every processWithConfig call made so far has settled
AllWithConfigSettled ==
    \A c \in 1..Len(withConfigCalls) : withConfigCalls[c].state # "awaiting"

\* C26: once every processWithConfig call made on the pipeline has settled,
\* resolved or rejected, one after the other or overlapping, the configuration of
\* the pipeline is the one it had before the first of the calls began.
C26_ConfigRestoredAfterAllCalls ==
    (withConfigCalls # <<>> /\ AllWithConfigSettled)
        => pconfig = withConfigCalls[1].originalConfig

====
